---- MODULE Spec2Model ----
(***************************************************************************)
(* Verification model of the LifeOS life manager: the Redux productivity,  *)
(* task and mood slices, the task and mood services, and the legacy        *)
(* DataManager / TaskManager / MoodManager / ExportManager scripts.        *)
(*                                                                         *)
(* The subsystems do not share state, so each has its own specification   *)
(* (SpecProd, SpecStreak, ...) over the one set of variables; a            *)
(* specification leaves the variables of the other subsystems unchanged.  *)
(***************************************************************************)
EXTENDS Integers, Sequences, FiniteSets, TLC

VARIABLES
    stats,          \* productivitySlice: state.stats
    achievements,   \* productivitySlice: state.achievements
    clock,          \* productivitySlice: the value new Date() returns
    lsTasks,        \* legacy: localStorage['lifeos_tasks'], parsed
    now,            \* legacy: the instant new Date() returns, in ticks (UTC)
    tz,             \* legacy: local time minus UTC, in ticks
    streakCount,    \* legacy: text of the #streakCount element
    sTasks,         \* tasksSlice: state.tasks
    lsSlice,        \* tasksSlice / TaskService: localStorage['tasks'], parsed
    remote,         \* Firestore collection 'tasks', in order of creation time
    lsUser,         \* localStorage['user'].id, None when nobody is signed in
    svcClock,       \* tasksSlice / TaskService: the value new Date() returns
    nextId,         \* number of task ids generated so far
    createFlight,   \* createTask thunk awaiting setDocument: <<task>> or << >>
    fetchFlight,    \* fetchTasks thunk awaiting getCollection
    rw,             \* the last completed write and the read that followed it
    addedInFlight,  \* ids of the tasks added since the fetch in flight started
    ls,             \* legacy: localStorage, by storage key
    file,           \* the backup file last exported, by property name
    snap,           \* what localStorage held when that file was exported
    events,         \* the dataChanged events the last call dispatched
    ret,            \* what the last call did and returned
    mmMoods,        \* legacy: MoodManager.moods
    lsMoods,        \* legacy: the moods snapshot MoodManager.save stored
    pending,        \* legacy: overwrite dialogs still open
    moodDay,        \* the calendar date (UTC) of the mood tracker's clock
    nextMoodId,     \* the next fresh mood id
    notice,         \* the last notification shown
    slMoods,        \* moods slice: state.moods
    lsSliceMoods,   \* moods slice: localStorage 'moods'
    tmTasks,        \* legacy: TaskManager.tasks
    tmStore,        \* legacy: the tasks snapshot stored under lifeos_tasks
    tmNow,          \* legacy task manager: the current instant, in ticks
    tmTz,           \* legacy task manager: local time minus UTC, in ticks
    tmNextId,       \* the next fresh task id
    pendingDelete,  \* task ids whose delete dialog is still open
    dom,            \* the derived views as displayed
    lsAchievements, \* legacy: the achievements stored under lifeos_achievements
    anMoods,        \* mood analytics: the moods of the entries, newest first
    anOut,          \* mood analytics: the last result computed
    chMoods,        \* charts: the moods stored under lifeos_moods
    chTasks,        \* charts: the tasks stored under lifeos_tasks
    chOut,          \* charts: the last series computed
    transactions,   \* transactions: the records held, in the order they were added
    txOut,          \* transactions: the last analytics computed
    xpTasks,        \* gamification: the tasks stored under lifeos_tasks
    xpOut,          \* gamification: what updateGamification last computed
    quotaFull,      \* storage: localStorage.setItem throws (quota exceeded)
    stTasks,        \* storage: the item stored under 'tasks'
    flTasks,        \* tasks slice under storage failures: state.tasks
    flError,        \* tasks slice under storage failures: state.error is set
    dmItem,         \* storage: the item stored under lifeos_tasks
    dmTasks,        \* legacy TaskManager.tasks under storage failures
    flNextId,       \* the next fresh task id
    raised,         \* the last operation threw to its caller
    mfTasks,        \* missing fields: the tasks stored
    mfTx,           \* missing fields: the transactions stored
    mfOut,          \* missing fields: the last aggregate computed, or that it threw
    amLegacy,       \* entering transactions: TransactionManager.transactions
    amStored,       \* entering transactions: the list stored under lifeos_transactions
    amSlice,        \* entering transactions: state.transactions of the slice
    amRet,          \* entering transactions: what the last request did
    auUser,         \* auth slice: state.user
    isAuthenticated,\* auth slice: state.isAuthenticated
    auTokens,       \* auth slice: state.accessToken and state.refreshToken
    auLsUser,       \* auth: localStorage 'user'
    auLsTokens,     \* auth: localStorage 'tokens'
    auFlights,      \* auth: the thunks whose request is pending
    issued,         \* auth: the number of token pairs issued
    loggedOut,      \* auth: a logout has fulfilled and no login or register since
    rlNow,          \* login: Date.now()
    attempts,       \* rateLimiter.attempts, per email
    checked,        \* login: times of the credential checks, per email
    rlCurrentUser,  \* login: AuthManager.currentUser
    rlStoredUser,   \* login: the stored user of the session
    hasLogin,       \* login: the AuthManager of the page has a login method
    ssNow,          \* session: Date.now(), in days
    ssCurrentUser,  \* session: AuthManager.currentUser
    ssSession,      \* session: the stored session (lifeos_user)
    owUser,         \* users: the signed-in user
    owLegacy,       \* users: the stored lifeos_tasks
    owRemote,       \* users: the remote tasks collection
    owLocal,        \* users: localStorage 'tasks'
    owShown         \* users: the tasks last returned, and to whom

prodVars == <<stats, achievements, clock>>
streakVars == <<lsTasks, now, tz, streakCount>>

svcVars == <<sTasks, lsSlice, remote, lsUser, svcClock, nextId, createFlight,
             fetchFlight, rw, addedInFlight>>

dataVars == <<ls, file, snap, events, ret>>
moodVars == <<mmMoods, lsMoods, pending, moodDay, nextMoodId, notice, slMoods,
              lsSliceMoods>>
tmVars == <<tmTasks, tmStore, tmNow, tmTz, tmNextId, pendingDelete, dom>>
achVars == <<lsAchievements>>
anVars == <<anMoods, anOut>>
chVars == <<chMoods, chTasks, chOut>>
txVars == <<transactions, txOut>>
xpVars == <<xpTasks, xpOut>>
failVars == <<quotaFull, stTasks, flTasks, flError, dmItem, dmTasks, flNextId, raised>>
mfVars == <<mfTasks, mfTx, mfOut>>
amVars == <<amLegacy, amStored, amSlice, amRet>>
auVars == <<auUser, isAuthenticated, auTokens, auLsUser, auLsTokens, auFlights, issued, loggedOut>>
rlVars == <<rlNow, attempts, checked, rlCurrentUser, rlStoredUser, hasLogin>>
ssVars == <<ssNow, ssCurrentUser, ssSession>>
owVars == <<owUser, owLegacy, owRemote, owLocal, owShown>>

\* What the actions of one subsystem leave alone: the other subsystems.
prodOthers ==
    <<streakVars, svcVars, dataVars, moodVars, tmVars,
      achVars, anVars, chVars, txVars, xpVars,
      failVars, mfVars, amVars, auVars, rlVars,
      ssVars, owVars>>
streakOthers ==
    <<prodVars, svcVars, dataVars, moodVars, tmVars,
      achVars, anVars, chVars, txVars, xpVars,
      failVars, mfVars, amVars, auVars, rlVars,
      ssVars, owVars>>
svcOthers ==
    <<prodVars, streakVars, dataVars, moodVars, tmVars,
      achVars, anVars, chVars, txVars, xpVars,
      failVars, mfVars, amVars, auVars, rlVars,
      ssVars, owVars>>
dataOthers ==
    <<prodVars, streakVars, svcVars, moodVars, tmVars,
      achVars, anVars, chVars, txVars, xpVars,
      failVars, mfVars, amVars, auVars, rlVars,
      ssVars, owVars>>
moodOthers ==
    <<prodVars, streakVars, svcVars, dataVars, tmVars,
      achVars, anVars, chVars, txVars, xpVars,
      failVars, mfVars, amVars, auVars, rlVars,
      ssVars, owVars>>
tmOthers ==
    <<prodVars, streakVars, svcVars, dataVars, moodVars,
      achVars, anVars, chVars, txVars, xpVars,
      failVars, mfVars, amVars, auVars, rlVars,
      ssVars, owVars>>
achOthers ==
    <<prodVars, streakVars, svcVars, dataVars, moodVars,
      tmVars, anVars, chVars, txVars, xpVars,
      failVars, mfVars, amVars, auVars, rlVars,
      ssVars, owVars>>
anOthers ==
    <<prodVars, streakVars, svcVars, dataVars, moodVars,
      tmVars, achVars, chVars, txVars, xpVars,
      failVars, mfVars, amVars, auVars, rlVars,
      ssVars, owVars>>
chOthers ==
    <<prodVars, streakVars, svcVars, dataVars, moodVars,
      tmVars, achVars, anVars, txVars, xpVars,
      failVars, mfVars, amVars, auVars, rlVars,
      ssVars, owVars>>
txOthers ==
    <<prodVars, streakVars, svcVars, dataVars, moodVars,
      tmVars, achVars, anVars, chVars, xpVars,
      failVars, mfVars, amVars, auVars, rlVars,
      ssVars, owVars>>
xpOthers ==
    <<prodVars, streakVars, svcVars, dataVars, moodVars,
      tmVars, achVars, anVars, chVars, txVars,
      failVars, mfVars, amVars, auVars, rlVars,
      ssVars, owVars>>
failOthers ==
    <<prodVars, streakVars, svcVars, dataVars, moodVars,
      tmVars, achVars, anVars, chVars, txVars,
      xpVars, mfVars, amVars, auVars, rlVars,
      ssVars, owVars>>
mfOthers ==
    <<prodVars, streakVars, svcVars, dataVars, moodVars,
      tmVars, achVars, anVars, chVars, txVars,
      xpVars, failVars, amVars, auVars, rlVars,
      ssVars, owVars>>
amOthers ==
    <<prodVars, streakVars, svcVars, dataVars, moodVars,
      tmVars, achVars, anVars, chVars, txVars,
      xpVars, failVars, mfVars, auVars, rlVars,
      ssVars, owVars>>
auOthers ==
    <<prodVars, streakVars, svcVars, dataVars, moodVars,
      tmVars, achVars, anVars, chVars, txVars,
      xpVars, failVars, mfVars, amVars, rlVars,
      ssVars, owVars>>
rlOthers ==
    <<prodVars, streakVars, svcVars, dataVars, moodVars,
      tmVars, achVars, anVars, chVars, txVars,
      xpVars, failVars, mfVars, amVars, auVars,
      ssVars, owVars>>
ssOthers ==
    <<prodVars, streakVars, svcVars, dataVars, moodVars,
      tmVars, achVars, anVars, chVars, txVars,
      xpVars, failVars, mfVars, amVars, auVars,
      rlVars, owVars>>
owOthers ==
    <<prodVars, streakVars, svcVars, dataVars, moodVars,
      tmVars, achVars, anVars, chVars, txVars,
      xpVars, failVars, mfVars, amVars, auVars,
      rlVars, ssVars>>

vars == <<stats, achievements, clock, lsTasks, now, tz, streakCount,
          sTasks, lsSlice, remote, lsUser, svcClock, nextId, createFlight,
          fetchFlight, rw, addedInFlight, ls, file, snap, events, ret, mmMoods, lsMoods,
          pending, moodDay, nextMoodId, notice, slMoods, lsSliceMoods,
          tmTasks, tmStore, tmNow, tmTz, tmNextId, pendingDelete, dom,
          lsAchievements, anMoods, anOut, chMoods, chTasks, chOut,
          transactions, txOut, xpTasks, xpOut,
          quotaFull, stTasks, flTasks, flError, dmItem, dmTasks, flNextId, raised,
          mfTasks, mfTx, mfOut,
          amLegacy, amStored, amSlice, amRet,
          auUser, isAuthenticated, auTokens, auLsUser, auLsTokens, auFlights, issued, loggedOut,
          rlNow, attempts, checked, rlCurrentUser, rlStoredUser, hasLogin,
          ssNow, ssCurrentUser, ssSession,
          owUser, owLegacy, owRemote, owLocal, owShown>>

\* An absent optional field (undefined) of a numeric or timestamp type.
None == -1

Max(a, b) == IF a >= b THEN a ELSE b

\* Math.round(n / d * 100) for integers n >= 0, d > 0: round half up.
RoundPercent(n, d) == (200 * n + d) \div (2 * d)

(***************************************************************************)
(* productivitySlice.ts                                                    *)
(***************************************************************************)

\* Bounds of the productivity model.
MaxClock == 2          \* instants new Date() can return
MaxStreakInput == 2    \* largest streak value dispatched
MaxCount == 2          \* cap on the task counters
MaxInitTasks == 1      \* tasks found in localStorage at start-up

\* Targets of the initial achievements.
TargetStreak7 == 7
TargetTasks10 == 10
TargetTasks50 == 50
TargetMood7 == 7
TargetSave100 == 100

Achievement(id, target) ==
    [id |-> id, target |-> target, unlocked |-> FALSE, progress |-> 0,
     unlockedAt |-> None]

\* title, description, icon and xpValue are display data no reducer reads.
initialAchievements ==
    << Achievement("streak-7", TargetStreak7),
       Achievement("tasks-10", TargetTasks10),
       Achievement("tasks-50", TargetTasks50),
       Achievement("mood-7", TargetMood7),
       Achievement("save-100", TargetSave100) >>

\* Inputs dispatched to the achievement reducers: one known id, one unknown.
AchIds == {"tasks-10", "no-such-id"}
ProgressInputs == {3, 9, 10, 11}
DayInputs == {"Monday", "Friday"}

\* calculateInitialStats over a stored task list with `total` tasks of which
\* `completed` are completed.
calculateInitialStats(total, completed) ==
    [totalTasks |-> total,
     completedTasks |-> completed,
     completionRate |-> IF total > 0 THEN RoundPercent(completed, total) ELSE 0,
     currentStreak |-> 0,
     longestStreak |-> 0,
     mostProductiveDay |-> "Monday",
     tasksCompletedToday |-> 0,
     averageCompletionTime |-> 0]

ProdInit ==
    /\ \E total \in 0..MaxInitTasks : \E completed \in 0..total :
          stats = calculateInitialStats(total, completed)
    /\ achievements = initialAchievements
    /\ clock = 0

\* state.achievements.find(a => a.id === id): index of the first match, 0 if none.
FindAchievement(id) ==
    IF \E i \in 1..Len(achievements) : achievements[i].id = id
    THEN CHOOSE i \in 1..Len(achievements) :
            /\ achievements[i].id = id
            /\ \A j \in 1..(i - 1) : achievements[j].id # id
    ELSE 0

\* Payloads of updateStats: Partial<ProductivityStats> over the streak fields.
StatsPayloads ==
    UNION { [flds -> 0..MaxStreakInput] :
            flds \in SUBSET {"currentStreak", "longestStreak"} }

\* { ...state.stats, ...payload }
MergeStats(s, payload) ==
    [f \in DOMAIN s |-> IF f \in DOMAIN payload THEN payload[f] ELSE s[f]]

updateStats(payload) ==
    /\ stats' = MergeStats(stats, payload)
    /\ UNCHANGED <<achievements, clock>>
    /\ UNCHANGED prodOthers

incrementCompletedTasks ==
    /\ stats.totalTasks < MaxCount
    /\ stats' = [stats EXCEPT
                   !.completedTasks = @ + 1,
                   !.totalTasks = @ + 1,
                   !.completionRate =
                       RoundPercent(stats.completedTasks + 1, stats.totalTasks + 1),
                   !.tasksCompletedToday = @ + 1]
    /\ UNCHANGED <<achievements, clock>>
    /\ UNCHANGED prodOthers

StreakAfter(s, n) ==
    [s EXCEPT !.currentStreak = n,
              !.longestStreak = IF n > s.longestStreak THEN n ELSE @]

updateStreak(n) ==
    /\ stats' = StreakAfter(stats, n)
    /\ UNCHANGED <<achievements, clock>>
    /\ UNCHANGED prodOthers

unlockAchievement(id) ==
    LET i == FindAchievement(id) IN
    /\ achievements' =
          IF i # 0 /\ ~achievements[i].unlocked
          THEN [achievements EXCEPT ![i].unlocked = TRUE,
                                    ![i].unlockedAt = clock]
          ELSE achievements
    /\ UNCHANGED <<stats, clock>>
    /\ UNCHANGED prodOthers

\* The unlock flag follows the progress in both directions.
ProgressAfterRelock(a, progress, at) ==
    IF a.target # 0 /\ progress >= a.target
    THEN [a EXCEPT !.progress = progress, !.unlocked = TRUE, !.unlockedAt = at]
    ELSE [a EXCEPT !.progress = progress, !.unlocked = FALSE]

ProgressAfter(a, progress, at) ==
    IF a.target # 0 /\ progress >= a.target
    THEN [a EXCEPT !.progress = progress, !.unlocked = TRUE, !.unlockedAt = at]
    ELSE [a EXCEPT !.progress = progress]

updateAchievementProgress(id, progress) ==
    LET i == FindAchievement(id) IN
    /\ achievements' =
          IF i # 0
          THEN [achievements EXCEPT ![i] = ProgressAfter(@, progress, clock)]
          ELSE achievements
    /\ UNCHANGED <<stats, clock>>
    /\ UNCHANGED prodOthers

setMostProductiveDay(day) ==
    /\ stats' = [stats EXCEPT !.mostProductiveDay = day]
    /\ UNCHANGED <<achievements, clock>>
    /\ UNCHANGED prodOthers

resetDailyStats ==
    /\ stats' = [stats EXCEPT !.tasksCompletedToday = 0]
    /\ UNCHANGED <<achievements, clock>>
    /\ UNCHANGED prodOthers

\* DataManager.getDefaultAchievements(): title, description, icon and xp are
\* display data.
getDefaultAchievements ==
    [i \in 1..8 |->
        [id |-> <<"streak_3", "streak_7", "streak_30", "tasks_10", "tasks_100",
                  "mood_7", "expense_100", "theme_switch">>[i],
         unlocked |-> FALSE]]

\* What lifeos_achievements can hold when the page loads: nothing, the
\* defaults, or the defaults with some achievements unlocked.
NotStored == [kind |-> "missing", items |-> << >>]
StoredList(items) == [kind |-> "array", items |-> items]

StoredAchievements ==
    {NotStored, StoredList(getDefaultAchievements),
     StoredList([getDefaultAchievements EXCEPT ![4].unlocked = TRUE]),
     StoredList([getDefaultAchievements EXCEPT ![1].unlocked = TRUE,
                                               ![4].unlocked = TRUE])}

AchStoreInit == lsAchievements \in StoredAchievements

\* DataManager.initialize() for the achievements key: the defaults are stored
\* only when the key holds nothing.
initializeAchievements ==
    /\ lsAchievements' =
          IF lsAchievements = NotStored
          THEN StoredList(getDefaultAchievements)
          ELSE lsAchievements
    /\ UNCHANGED achOthers

\* Time passes between two dispatches.
ProdTick ==
    /\ clock < MaxClock
    /\ clock' = clock + 1
    /\ UNCHANGED <<stats, achievements>>
    /\ UNCHANGED prodOthers

NextProd ==
    \/ \E payload \in StatsPayloads : updateStats(payload)
    \/ incrementCompletedTasks
    \/ \E n \in 0..MaxStreakInput : updateStreak(n)
    \/ \E id \in AchIds : unlockAchievement(id)
    \/ \E id \in AchIds : \E p \in ProgressInputs : updateAchievementProgress(id, p)
    \/ \E day \in DayInputs : setMostProductiveDay(day)
    \/ resetDailyStats
    \/ initializeAchievements
    \/ ProdTick

\* C1: an achievement's unlock timestamp, once set, is left unchanged by
\* every later updateAchievementProgress or unlockAchievement.
C1_UnlockTimestampSetOnce ==
    [][\A i \in 1..Len(achievements) :
          achievements[i].unlockedAt # None
             => achievements'[i].unlockedAt = achievements[i].unlockedAt]_vars

\* C2: currentStreak never exceeds longestStreak.
C2_CurrentAtMostLongest == stats.currentStreak <= stats.longestStreak

\* C3: longestStreak never decreases from one step to the next.
C3_LongestNeverDecreases ==
    [][stats'.longestStreak >= stats.longestStreak]_vars

\* C12: an achievement that is unlocked stays unlocked through every progress
\* update, unlock request, statistics update and store initialisation.
C12_UnlockedStaysUnlocked ==
    [][/\ \A i \in 1..Len(achievements) :
             achievements[i].unlocked => achievements'[i].unlocked
       /\ \A i \in 1..Len(lsAchievements.items) :
             lsAchievements.items[i].unlocked =>
                /\ i <= Len(lsAchievements'.items)
                /\ lsAchievements'.items[i].id = lsAchievements.items[i].id
                /\ lsAchievements'.items[i].unlocked]_vars

\* An unlocked achievement has since been given a progress below its target,
\* and the stored achievements, one of them unlocked, have been initialised.
C12_ProgressBelowTargetAfterUnlock ==
    /\ \E i \in 1..Len(achievements) :
          /\ achievements[i].unlocked
          /\ achievements[i].progress > 0
          /\ achievements[i].progress < achievements[i].target
    /\ \E i \in 1..Len(lsAchievements.items) : lsAchievements.items[i].unlocked

(***************************************************************************)
(* Legacy streak calculation: updateStreak of js/app.js and                *)
(* js/utils/script.js.                                                     *)
(*                                                                         *)
(* Time is counted in ticks of 24/TicksPerDay hours since 00:00 UTC of day *)
(* 0.  An ISO timestamp is the UTC instant; its date part                  *)
(* (toISOString().split('T')[0]) is the UTC day number.                    *)
(***************************************************************************)

TicksPerDay == 3       \* bound: resolution of the clock
MaxDay == 3            \* bound: UTC days 0..MaxDay carry completions
MaxStreakTasks == 3    \* bound: tasks in the stored list
LookBackDays == 365

MaxTime == (MaxDay + 1) * TicksPerDay - 1
TzOffsets == {-1, 0, 1}

\* isoString.split('T')[0] of the ISO timestamp of instant t.
IsoDate(t) == t \div TicksPerDay

\* today = new Date(); today.setHours(0, 0, 0, 0): the instant of the local
\* midnight that starts the local day containing instant t.
LocalMidnight(t, offset) == ((t + offset) \div TicksPerDay) * TicksPerDay - offset

\* checkDate.setDate(today.getDate() - i); checkDate.toISOString().split('T')[0]
CheckDateStr(t, offset, i) ==
    IsoDate(LocalMidnight(t, offset) - i * TicksPerDay)

\* tasks.filter(t => t.completed)
CompletedTasks(tasks) ==
    { k \in 1..Len(tasks) : tasks[k].completed }

\* the Set of task.completedAt.split('T')[0] over completed tasks that have a
\* completedAt
CompletedDates(tasks) ==
    { IsoDate(tasks[k].completedAt) :
        k \in { j \in CompletedTasks(tasks) : tasks[j].completedAt # None } }

RECURSIVE StreakLoop(_, _, _, _, _)
StreakLoop(dates, t, offset, i, streak) ==
    IF i >= LookBackDays THEN streak
    ELSE IF CheckDateStr(t, offset, i) \in dates
         THEN StreakLoop(dates, t, offset, i + 1, streak + 1)
         ELSE IF i > 0 THEN streak
              ELSE StreakLoop(dates, t, offset, i + 1, streak)

\* The number updateStreak writes to #streakCount.
ComputeStreak(tasks, t, offset) ==
    IF CompletedTasks(tasks) = {} THEN 0
    ELSE StreakLoop(CompletedDates(tasks), t, offset, 0, 0)

\* A stored task: title, category, priority, deadline, notes, tags, createdAt
\* and updatedAt are not read by the streak, the statistics or the store.
StoredTask(id, completed, completedAt) ==
    [id |-> id, completed |-> completed, completedAt |-> completedAt]

TaskShapes(t) ==
    [completed : BOOLEAN, completedAt : {None} \cup 0..t]

\* The stored list holds up to MaxStreakTasks tasks completed (or not) at any
\* instants up to now; today is the last modelled day.
StreakInit ==
    /\ tz \in TzOffsets
    /\ now \in (MaxTime - TicksPerDay + 1)..MaxTime
    /\ \E n \in 0..MaxStreakTasks : \E shape \in [1..n -> TaskShapes(now)] :
          lsTasks = [k \in 1..n |->
                        StoredTask(k, shape[k].completed, shape[k].completedAt)]
    /\ streakCount = None

updateStreakLegacy ==
    /\ streakCount' = ComputeStreak(lsTasks, now, tz)
    /\ UNCHANGED <<lsTasks, now, tz>>
    /\ UNCHANGED streakOthers

\* The calendar day, in the user's local time, that contains instant t.
LocalDay(t, offset) == (t + offset) \div TicksPerDay

\* The local calendar days on which at least one task was completed.
CompletionDays(tasks, offset) ==
    { LocalDay(tasks[k].completedAt, offset) :
        k \in { j \in 1..Len(tasks) :
                   tasks[j].completed /\ tasks[j].completedAt # None } }

RECURSIVE RunLength(_, _, _)
RunLength(days, d, left) ==
    IF left = 0 \/ d \notin days THEN 0
    ELSE 1 + RunLength(days, d - 1, left - 1)

\* Consecutive days with a completion, counted backward from today, or from
\* yesterday when today has none, looking back at most LookBackDays days.
ConsecutiveDays(days, today) ==
    IF today \in days THEN RunLength(days, today, LookBackDays)
    ELSE RunLength(days, today - 1, LookBackDays - 1)

\* C4: the streak is the number of consecutive calendar days with a completion
\* counted backward from today (from yesterday when today has none).
C4_StreakCountsConsecutiveDays ==
    streakCount # None =>
        streakCount = ConsecutiveDays(CompletionDays(lsTasks, tz), LocalDay(now, tz))

\* C5: with completions only on the day before today the streak is 1.
C5_YesterdayOnlyGivesOne ==
    (streakCount # None
       /\ CompletionDays(lsTasks, tz) = {LocalDay(now, tz) - 1})
    => streakCount = 1

(***************************************************************************)
(* tasksSlice (unnamed/part_001), TaskService (unnamed/part_003) and the   *)
(* Firestore helpers (unnamed/part_002).                                   *)
(*                                                                         *)
(* A task is modelled by the fields the reducers and the service branch    *)
(* on: id, userId, completed, completedAt.  title, category, priority,     *)
(* deadline, tags, createdAt and updatedAt are carried along unread.       *)
(***************************************************************************)

MaxSvcTasks == 2       \* bound: task ids generated in a run
MaxSvcClock == 1       \* bound: instants new Date() returns

Users == {1}

Task(id, userId, completed, completedAt) ==
    [id |-> id, userId |-> userId, completed |-> completed,
     completedAt |-> completedAt]

Ids(tasks) == { tasks[k].id : k \in 1..Len(tasks) }

\* tasks.filter(t => pred(t)) for pred given as the set of records that pass.
RECURSIVE FilterSeq(_, _)
FilterSeq(tasks, keep) ==
    IF tasks = << >> THEN << >>
    ELSE IF Head(tasks) \in keep
         THEN <<Head(tasks)>> \o FilterSeq(Tail(tasks), keep)
         ELSE FilterSeq(Tail(tasks), keep)

\* tasks.filter(t => t.id !== id)
WithoutId(tasks, id) ==
    FilterSeq(tasks, { tasks[k] : k \in { j \in 1..Len(tasks) : tasks[j].id # id } })

\* tasks.findIndex(t => t.id === id) + 1: 0 when there is none.
FindIndex(tasks, id) ==
    IF id \in Ids(tasks)
    THEN CHOOSE i \in 1..Len(tasks) :
            /\ tasks[i].id = id
            /\ \A j \in 1..(i - 1) : tasks[j].id # id
    ELSE 0

Reverse(q) == [k \in 1..Len(q) |-> q[Len(q) + 1 - k]]

\* dbHelpers.setDocument: setDoc replaces the document of that id and stamps
\* it with a new createdAt, which puts it last in creation order.
setDocument(docs, task) == WithoutId(docs, task.id) \o <<task>>

\* dbHelpers.getCollection with where userId == uid, orderBy createdAt desc.
getCollection(docs, uid) ==
    Reverse(FilterSeq(docs,
        { docs[k] : k \in { j \in 1..Len(docs) : docs[j].userId = uid } }))

\* dbHelpers.deleteDocument
deleteDocument(docs, id) == WithoutId(docs, id)

NoRw == [lastWrite |-> None, readFor |-> None, done |-> FALSE, result |-> << >>]

\* The slice starts from loadTasksFromStorage(); a first run has nothing stored.
SvcInit ==
    /\ lsSlice = << >>
    /\ sTasks = lsSlice
    /\ remote = << >>
    /\ lsUser \in {None} \cup Users
    /\ svcClock = 0
    /\ nextId = 0
    /\ createFlight = << >>
    /\ fetchFlight = FALSE
    /\ rw = NoRw
    /\ addedInFlight = {}

\* reducers.addTask, with a task the caller built under a fresh id
addTask(owner) ==
    /\ nextId < MaxSvcTasks
    /\ nextId' = nextId + 1
    /\ sTasks' = Append(sTasks, Task(nextId + 1, owner, FALSE, None))
    /\ lsSlice' = sTasks'
    /\ rw' = NoRw
    /\ addedInFlight' = IF fetchFlight THEN addedInFlight \cup {nextId + 1}
                        ELSE addedInFlight
    /\ UNCHANGED <<remote, lsUser, svcClock, createFlight, fetchFlight>>
    /\ UNCHANGED svcOthers

\* reducers.removeTask
removeTask(id) ==
    /\ sTasks' = WithoutId(sTasks, id)
    /\ lsSlice' = sTasks'
    /\ rw' = NoRw
    /\ addedInFlight' = addedInFlight \ {id}
    /\ UNCHANGED <<remote, lsUser, svcClock, nextId, createFlight, fetchFlight>>
    /\ UNCHANGED svcOthers

\* The task after task.completed = !task.completed and, when it is now
\* completed, task.completedAt = new Date().toISOString().
Toggled(task, at) ==
    IF ~task.completed
    THEN [task EXCEPT !.completed = TRUE, !.completedAt = at]
    ELSE [task EXCEPT !.completed = FALSE]

\* reducers.toggleTaskComplete
toggleTaskComplete(id) ==
    LET i == FindIndex(sTasks, id) IN
    /\ IF i # 0
       THEN /\ sTasks' = [sTasks EXCEPT ![i] = Toggled(@, svcClock)]
            /\ lsSlice' = sTasks'
       ELSE UNCHANGED <<sTasks, lsSlice>>
    /\ rw' = NoRw
    /\ UNCHANGED <<remote, lsUser, svcClock, nextId, createFlight, fetchFlight,
                   addedInFlight>>
    /\ UNCHANGED svcOthers

\* createTask thunk, up to the await of dbHelpers.setDocument: TaskService
\* .createTask builds the task under a fresh id.
createTaskStart(owner) ==
    /\ createFlight = << >>
    /\ nextId < MaxSvcTasks
    /\ nextId' = nextId + 1
    /\ createFlight' = <<Task(nextId + 1, owner, FALSE, None)>>
    /\ UNCHANGED <<sTasks, lsSlice, remote, lsUser, svcClock, fetchFlight, rw,
                   addedInFlight>>
    /\ UNCHANGED svcOthers

\* createTask thunk from the settling of setDocument: the remote write, or on
\* its failure the push to localStorage, then the createTask.fulfilled reducer.
createTaskSettle(remoteOk) ==
    /\ createFlight # << >>
    /\ LET task == createFlight[1]
       IN /\ remote' = IF remoteOk THEN setDocument(remote, task) ELSE remote
          /\ sTasks' = Append(sTasks, task)
          \* the reducer's setItem(state.tasks) overwrites the service's push
          /\ lsSlice' = sTasks'
          /\ rw' = [NoRw EXCEPT !.lastWrite = task.id]
          /\ addedInFlight' = IF fetchFlight THEN addedInFlight \cup {task.id}
                              ELSE addedInFlight
    /\ createFlight' = << >>
    /\ UNCHANGED <<lsUser, svcClock, nextId, fetchFlight>>
    /\ UNCHANGED svcOthers

\* What TaskService.getTasks returns once getCollection has settled, or at
\* once when nobody is signed in.
getTasks(remoteOk) ==
    IF lsUser # None /\ remoteOk THEN getCollection(remote, lsUser) ELSE lsSlice

\* fetchTasks.fulfilled, recording the snapshot the read returned
FetchFulfilled(result) ==
    /\ sTasks' = result
    /\ lsSlice' = result
    /\ fetchFlight' = FALSE

\* fetchTasks thunk up to the await of getCollection; without a signed-in
\* user getTasks reads localStorage at once and the thunk fulfils.
fetchTasksStart ==
    /\ ~fetchFlight
    /\ IF lsUser # None
       THEN /\ fetchFlight' = TRUE
            /\ rw' = [rw EXCEPT !.readFor = rw.lastWrite, !.done = FALSE,
                                !.result = << >>]
            /\ UNCHANGED <<sTasks, lsSlice>>
       ELSE /\ FetchFulfilled(getTasks(FALSE))
            /\ rw' = [lastWrite |-> None, readFor |-> rw.lastWrite,
                      done |-> TRUE, result |-> getTasks(FALSE)]
    /\ addedInFlight' = {}
    /\ UNCHANGED <<remote, lsUser, svcClock, nextId, createFlight>>
    /\ UNCHANGED svcOthers

\* fetchTasks thunk from the settling of getCollection
fetchTasksSettle(remoteOk) ==
    /\ fetchFlight
    /\ FetchFulfilled(getTasks(remoteOk))
    /\ rw' = [lastWrite |-> None, readFor |-> rw.readFor,
              done |-> TRUE, result |-> getTasks(remoteOk)]
    /\ UNCHANGED <<remote, lsUser, svcClock, nextId, createFlight,
                   addedInFlight>>
    /\ UNCHANGED svcOthers

\* deleteTask thunk: deleteDocument, or on its failure the removal from
\* localStorage, then deleteTask.fulfilled.
deleteTask(id, remoteOk) ==
    /\ remote' = IF remoteOk THEN deleteDocument(remote, id) ELSE remote
    /\ sTasks' = WithoutId(sTasks, id)
    /\ lsSlice' = sTasks'
    /\ rw' = NoRw
    /\ addedInFlight' = addedInFlight \ {id}
    /\ UNCHANGED <<lsUser, svcClock, nextId, createFlight, fetchFlight>>
    /\ UNCHANGED svcOthers

\* TaskService.getTask: the remote document, or on failure the stored task;
\* << >> when there is none.
getTask(id, remoteOk) ==
    LET src == IF remoteOk THEN remote ELSE lsSlice
        i == FindIndex(src, id)
    IN IF i = 0 THEN << >> ELSE <<src[i]>>

\* updateTask thunk with updates that touch none of the modelled fields:
\* getTask, updateDocument (which fails when the document does not exist) or
\* the replacement in localStorage, then updateTask.fulfilled.  A missing task
\* rejects the thunk.
updateTask(id, getOk, updateOk) ==
    LET found == getTask(id, getOk) IN
    /\ found # << >>
    /\ LET updated == found[1]
           r == FindIndex(remote, id)
           l == FindIndex(lsSlice, id)
           i == FindIndex(sTasks, id)
           wrote == updateOk /\ r # 0
           local == IF ~wrote /\ l # 0 THEN [lsSlice EXCEPT ![l] = updated]
                    ELSE lsSlice
       IN /\ remote' = IF wrote THEN [remote EXCEPT ![r] = updated] ELSE remote
          /\ sTasks' = IF i # 0 THEN [sTasks EXCEPT ![i] = updated] ELSE sTasks
          /\ lsSlice' = IF i # 0 THEN sTasks' ELSE local
    /\ rw' = NoRw
    /\ UNCHANGED <<lsUser, svcClock, nextId, createFlight, fetchFlight,
                   addedInFlight>>
    /\ UNCHANGED svcOthers

SvcTick ==
    /\ svcClock < MaxSvcClock
    /\ svcClock' = svcClock + 1
    /\ UNCHANGED <<sTasks, lsSlice, remote, lsUser, nextId, createFlight,
                   fetchFlight, rw, addedInFlight>>
    /\ UNCHANGED svcOthers

NextSvc ==
    \/ \E owner \in Users : addTask(owner)
    \/ \E id \in 1..MaxSvcTasks : removeTask(id)
    \/ \E id \in 1..MaxSvcTasks : toggleTaskComplete(id)
    \/ \E owner \in Users : createTaskStart(owner)
    \/ \E ok \in BOOLEAN : createTaskSettle(ok)
    \/ fetchTasksStart
    \/ \E ok \in BOOLEAN : fetchTasksSettle(ok)
    \/ \E id \in 1..MaxSvcTasks : \E ok \in BOOLEAN : deleteTask(id, ok)
    \/ \E id \in 1..MaxSvcTasks : \E getOk, updateOk \in BOOLEAN :
          updateTask(id, getOk, updateOk)
    \/ SvcTick

\* C6: every task has a completion timestamp exactly when it is completed.
C6_CompletedAtIffCompleted ==
    \A k \in 1..Len(sTasks) :
        (sTasks[k].completedAt # None) <=> sTasks[k].completed

\* C10: a read issued right after a write completed returns the written task.
C10_ReadSeesWrite ==
    (rw.done /\ rw.readFor # None) => rw.readFor \in Ids(rw.result)

\* C25: a task added to the store (addTask or a fulfilled createTask) while
\* a fetchTasks request is in flight is still in the task list and in local
\* storage after that fetch fulfils.
C25_AddedDuringFetchKept ==
    [][(fetchFlight /\ ~fetchFlight') =>
          \A id \in addedInFlight :
             id \in Ids(sTasks') /\ id \in Ids(lsSlice')]_vars

SvcIdle ==
    /\ sTasks = << >>
    /\ lsSlice = << >>
    /\ remote = << >>
    /\ lsUser = None
    /\ svcClock = 0
    /\ nextId = 0
    /\ createFlight = << >>
    /\ fetchFlight = FALSE
    /\ rw = NoRw
    /\ addedInFlight = {}

(***************************************************************************)
(* Legacy store: DataManager (js/utils/script.js, unnamed/part_006) and    *)
(* ExportManager (unnamed/part_008).                                       *)
(*                                                                         *)
(* A stored value is what JSON.parse gives for the stored text: an array   *)
(* of records, null, or an object; a key may also be missing.  The         *)
(* collections are tasks, moods and transactions; the user, preferences,   *)
(* timezones, achievements and productivity keys go through the same code. *)
(***************************************************************************)

MaxRecId == 1          \* bound: distinct records
MaxLen == 2            \* bound: records in one stored array

Keys == {"lifeos_tasks", "lifeos_moods", "lifeos_transactions"}

\* DataManager.STORAGE_KEYS: property name -> storage key
STORAGE_KEYS ==
    [n \in {"TASKS", "MOODS", "TRANSACTIONS"} |->
        CASE n = "TASKS" -> "lifeos_tasks"
          [] n = "MOODS" -> "lifeos_moods"
          [] n = "TRANSACTIONS" -> "lifeos_transactions"]

\* Object.entries(STORAGE_KEYS), in declaration order
KeyOrder == <<"TASKS", "TRANSACTIONS", "MOODS">>

Missing == [kind |-> "missing", items |-> << >>]
Null == [kind |-> "null", items |-> << >>]
Arr(items) == [kind |-> "array", items |-> items]
Obj(items) == [kind |-> "object", items |-> items]

Recs == [id : 1..MaxRecId]
Arrays == { Arr(q) : q \in UNION { [1..n -> Recs] : n \in 0..MaxLen } }

\* DataManager.get(key, defaultValue)
Get(store, key, default) ==
    IF store[key].kind = "missing" THEN default ELSE store[key]

\* JSON.parse(localStorage.getItem(key) || '[]')
ParseOrEmpty(store, key) ==
    IF store[key].kind = "missing" THEN Arr(<< >>) ELSE store[key]

Event(key, data) == [key |-> key, data |-> data]

Ret(op, ok, replace, ofExport) ==
    [op |-> op, ok |-> ok, replace |-> replace, ofExport |-> ofExport]

NoFile == [n \in {} |-> Missing]

\* Backup files written by hand rather than exported: property names as
\* importData reads them.
HandFiles ==
    { [n \in {"TASKS"} |-> v] : v \in { Arr(<< >>), Arr(<<[id |-> 1]>>) } }

\* The page has loaded: DataManager.initialize() has stored the defaults.
DataInit ==
    /\ ls = [k \in Keys |-> Arr(<< >>)]
    /\ file = NoFile
    /\ snap = [k \in Keys |-> Missing]
    /\ events = << >>
    /\ ret = Ret("load", TRUE, FALSE, FALSE)

\* DataManager.set(key, value); setItem throws when storageOk is false.
set(key, value, storageOk) ==
    /\ ls' = IF storageOk THEN [ls EXCEPT ![key] = value] ELSE ls
    /\ events' = IF storageOk THEN <<Event(key, value)>> ELSE << >>
    /\ ret' = Ret("set", storageOk, FALSE, FALSE)
    /\ UNCHANGED <<file, snap>>
    /\ UNCHANGED dataOthers

\* DataManager.remove(key)
remove(key) ==
    /\ ls' = [ls EXCEPT ![key] = Missing]
    /\ events' = <<Event(key, Null)>>
    /\ ret' = Ret("remove", TRUE, FALSE, FALSE)
    /\ UNCHANGED <<file, snap>>
    /\ UNCHANGED dataOthers

\* DataManager.initialize()
initialize ==
    /\ ls' = [k \in Keys |-> IF ls[k].kind = "missing" THEN Arr(<< >>) ELSE ls[k]]
    /\ events' = << >>
    /\ ret' = Ret("initialize", TRUE, FALSE, FALSE)
    /\ UNCHANGED <<file, snap>>
    /\ UNCHANGED dataOthers

\* DataManager.clearAll()
clearAll ==
    /\ ls' = [k \in Keys |-> Missing]
    /\ events' = << >>
    /\ ret' = Ret("clearAll", TRUE, FALSE, FALSE)
    /\ UNCHANGED <<file, snap>>
    /\ UNCHANGED dataOthers

\* DataManager.exportAll(): data[key] = this.get(key) under the storage key
\* itself.  exportedAt and version are left out of the file.
ExportAllFile(store) == [k \in Keys |-> Get(store, k, Null)]

exportAll ==
    /\ file' = ExportAllFile(ls)
    /\ snap' = ls
    /\ events' = << >>
    /\ ret' = Ret("exportAll", TRUE, FALSE, FALSE)
    /\ UNCHANGED ls
    /\ UNCHANGED dataOthers

\* The value importData stores for one entry, or Missing when the spread of
\* a null throws and the entry is reported as failed.
Imported(existing, incoming, merge) ==
    IF ~merge THEN incoming
    ELSE IF incoming.kind = "null" THEN Missing
    ELSE IF existing.kind = "array" THEN Arr(existing.items \o incoming.items)
    ELSE Obj(existing.items \o incoming.items)

\* The store after importData has handled the first n entries of STORAGE_KEYS.
RECURSIVE ImportStore(_, _, _, _)
ImportStore(store, data, merge, n) ==
    IF n = 0 THEN store
    ELSE LET before == ImportStore(store, data, merge, n - 1)
             name == KeyOrder[n]
             key == STORAGE_KEYS[name]
             value == Imported(Get(before, key, Arr(<< >>)), data[name], merge)
         IN IF name \in DOMAIN data /\ value # Missing
            THEN [before EXCEPT ![key] = value]
            ELSE before

\* The events importData dispatches through set, in order.
RECURSIVE ImportEvents(_, _, _, _)
ImportEvents(store, data, merge, n) ==
    IF n = 0 THEN << >>
    ELSE LET before == ImportStore(store, data, merge, n - 1)
             name == KeyOrder[n]
             key == STORAGE_KEYS[name]
             value == Imported(Get(before, key, Arr(<< >>)), data[name], merge)
         IN ImportEvents(store, data, merge, n - 1)
              \o (IF name \in DOMAIN data /\ value # Missing
                  THEN <<Event(key, value)>> ELSE << >>)

\* DataManager.importData(data, { merge }) as App.importData (merge false) and
\* importDataFromFile (merge true) call it.
importData(data, merge, ofExport) ==
    /\ DOMAIN data # {}
    /\ LET after == ImportStore(ls, data, merge, Len(KeyOrder)) IN
       /\ \A k \in Keys : Len(after[k].items) <= MaxLen
       /\ ls' = after
    /\ events' = ImportEvents(ls, data, merge, Len(KeyOrder))
    /\ ret' = Ret("importData", TRUE, ~merge, ofExport)
    /\ UNCHANGED <<file, snap>>
    /\ UNCHANGED dataOthers

\* ExportManager.exportAllData(); settings and exportedAt are left out.
ExportAllDataFile(store) ==
    [n \in {"tasks", "transactions", "moods"} |->
        ParseOrEmpty(store, "lifeos_" \o n)]

exportAllData ==
    /\ file' = ExportAllDataFile(ls)
    /\ snap' = ls
    /\ events' = << >>
    /\ ret' = Ret("exportAllData", TRUE, FALSE, FALSE)
    /\ UNCHANGED ls
    /\ UNCHANGED dataOthers

\* if (data.x): a property that is there and neither null nor undefined
Truthy(data, n) == n \in DOMAIN data /\ data[n].kind \in {"array", "object"}

\* ExportManager.restoreFromBackup(fileContent)
restoreFromBackup(data, ofExport) ==
    /\ DOMAIN data # {}
    /\ ls' = [k \in Keys |->
                LET n == CHOOSE x \in {"tasks", "transactions", "moods"} :
                            "lifeos_" \o x = k
                IN IF Truthy(data, n) THEN data[n] ELSE ls[k]]
    /\ events' = << >>
    /\ ret' = Ret("restoreFromBackup", TRUE, TRUE, ofExport)
    /\ UNCHANGED <<file, snap>>
    /\ UNCHANGED dataOthers

\* ExportManager.importData(fileContent, dataType) of a parsed array
exportManagerImport(data, dataType) ==
    /\ ls' = CASE dataType = "tasks" -> [ls EXCEPT !["lifeos_tasks"] = data]
               [] dataType = "moods" -> [ls EXCEPT !["lifeos_moods"] = data]
               [] OTHER -> ls
    /\ events' = << >>
    /\ ret' = Ret("ExportManager.importData", TRUE, TRUE, FALSE)
    /\ UNCHANGED <<file, snap>>
    /\ UNCHANGED dataOthers

NextData ==
    \/ \E k \in Keys : \E v \in Arrays : \E ok \in BOOLEAN : set(k, v, ok)
    \/ \E k \in Keys : remove(k)
    \/ initialize
    \/ clearAll
    \/ exportAll
    \/ \E merge \in BOOLEAN : importData(file, merge, TRUE)
    \/ \E data \in HandFiles : \E merge \in BOOLEAN : importData(data, merge, FALSE)
    \/ exportAllData
    \/ restoreFromBackup(file, TRUE)
    \/ \E data \in Arrays : \E t \in {"tasks", "moods", "settings"} :
          exportManagerImport(data, t)

\* The records a stored value holds.
RecordsOf(v) == { v.items[i] : i \in 1..Len(v.items) }

\* C7: after an exported backup is imported in replace mode, every collection
\* holds exactly the records it held when the backup was exported.
C7_ExportImportRoundTrip ==
    (ret.replace /\ ret.ofExport) =>
        \A k \in Keys : RecordsOf(ls[k]) = RecordsOf(snap[k])

\* C9: whenever a stored collection changes, the call that changed it has
\* dispatched a dataChanged event carrying the key and the new snapshot.
C9_EveryChangeNotified ==
    [][\A k \in Keys :
          ls'[k] # ls[k] =>
             \E i \in 1..Len(events') :
                events'[i] = Event(k, Get(ls', k, Null))]_vars

\* No two records of a stored collection share an identifier.
UniqueIds(store) ==
    \A k \in Keys : \A i, j \in 1..Len(store[k].items) :
        i # j => store[k].items[i].id # store[k].items[j].id

\* C23: within each collection no two records share an identifier: an import,
\* in merge or in replace mode and of a file imported before or not, into
\* collections whose identifiers are unique leaves them unique.
C23_ImportKeepsIdsUnique ==
    [][(ret'.op = "importData" /\ UniqueIds(ls)) => UniqueIds(ls')]_vars

DataIdle ==
    /\ ls = [k \in Keys |-> Arr(<< >>)]
    /\ file = NoFile
    /\ snap = [k \in Keys |-> Missing]
    /\ events = << >>
    /\ ret = Ret("load", TRUE, FALSE, FALSE)

(***************************************************************************)
(* Mood tracking: the legacy MoodManager (js/utils/script.js,              *)
(* unnamed/part_008) and the moods slice (store/slices/moodsSlice.ts).     *)
(*                                                                         *)
(* A mood entry is an object; obj names the object, which keeps its        *)
(* identity when Object.assign overwrites its fields, id included.         *)
(***************************************************************************)

MaxMoodDay == 1        \* bound: the clock runs over days 0..MaxMoodDay
MaxMoodId == 3         \* bound: calls of logMood
MaxPending == 2        \* bound: overwrite dialogs open at once
MaxSliceMoods == 2     \* bound: entries in the slice

DefaultMoodValue == 3

\* MoodManager.moodTypes, by label: value
moodTypes ==
    [m \in {"Happy", "Excited", "Neutral", "Sad", "Frustrated", "Tired",
            "Thoughtful", "Loved"} |->
        CASE m \in {"Happy", "Excited", "Loved"} -> 5
          [] m \in {"Neutral", "Thoughtful"} -> 3
          [] m \in {"Frustrated", "Tired"} -> 2
          [] m = "Sad" -> 1]

MoodInputs == {"Happy", "Unknown"}

\* moodInfo?.value || 3
MoodValue(mood) ==
    IF mood \in DOMAIN moodTypes THEN moodTypes[mood] ELSE DefaultMoodValue

MoodEntry(id, date, mood) ==
    [id |-> id, date |-> date, mood |-> mood, moodValue |-> MoodValue(mood)]

\* An entry as the object obj holds it.
Held(obj, entry) ==
    [obj |-> obj, id |-> entry.id, date |-> entry.date, mood |-> entry.mood,
     moodValue |-> entry.moodValue]

MoodInit ==
    /\ mmMoods = << >>
    /\ lsMoods = << >>
    /\ pending = {}
    /\ moodDay = 0
    /\ nextMoodId = 1
    /\ notice = ""
    /\ slMoods = << >>
    /\ lsSliceMoods = << >>

\* A find that matches no entry.
existingTodayNone(moods, date) == 0

\* this.moods.find(m => m.date === date): the index of the first match, 0 if none

existingToday(moods, date) ==
    IF \E i \in 1..Len(moods) : moods[i].date = date
    THEN CHOOSE i \in 1..Len(moods) :
            /\ moods[i].date = date
            /\ \A j \in 1..(i - 1) : moods[j].date # date
    ELSE 0

\* MoodManager.save(): DataManager.set(STORAGE_KEYS.MOODS, this.moods), which
\* leaves the stored snapshot as it was when setItem throws.
save(moods, storageOk) == IF storageOk THEN moods ELSE lsMoods

\* MoodManager.logMood(mood), up to the point where it returns
logMood(mood, storageOk) ==
    /\ nextMoodId <= MaxMoodId
    /\ LET moodEntry == MoodEntry(nextMoodId, moodDay, mood)
           found == existingToday(mmMoods, moodEntry.date)
       IN IF found # 0
          THEN /\ Cardinality(pending) < MaxPending
               /\ pending' = pending \cup
                     {[target |-> mmMoods[found].obj, entry |-> moodEntry]}
               /\ UNCHANGED <<mmMoods, lsMoods, notice>>
          ELSE /\ mmMoods' = Append(mmMoods, Held(moodEntry.id, moodEntry))
               /\ lsMoods' = save(mmMoods', storageOk)
               /\ notice' = "Mood logged!"
               /\ UNCHANGED pending
    /\ nextMoodId' = nextMoodId + 1
    /\ UNCHANGED <<moodDay, slMoods, lsSliceMoods>>
    /\ UNCHANGED moodOthers

\* The dialog resolves true: Object.assign(existingToday, moodEntry), save
confirmOverwrite(dialog, storageOk) ==
    /\ dialog \in pending
    /\ pending' = pending \ {dialog}
    /\ mmMoods' = [i \in 1..Len(mmMoods) |->
                     IF mmMoods[i].obj = dialog.target
                     THEN Held(dialog.target, dialog.entry)
                     ELSE mmMoods[i]]
    /\ lsMoods' = save(mmMoods', storageOk)
    /\ notice' = "Mood updated!"
    /\ UNCHANGED <<moodDay, nextMoodId, slMoods, lsSliceMoods>>
    /\ UNCHANGED moodOthers

\* The dialog resolves false
cancelOverwrite(dialog) ==
    /\ dialog \in pending
    /\ pending' = pending \ {dialog}
    /\ UNCHANGED <<mmMoods, lsMoods, moodDay, nextMoodId, notice, slMoods,
                   lsSliceMoods>>
    /\ UNCHANGED moodOthers

RECURSIVE WithoutMoodId(_, _)
WithoutMoodId(moods, id) ==
    IF moods = << >> THEN << >>
    ELSE (IF Head(moods).id # id THEN <<Head(moods)>> ELSE << >>)
            \o WithoutMoodId(Tail(moods), id)

\* MoodManager.deleteMood(id)
deleteMood(id, storageOk) ==
    /\ mmMoods' = WithoutMoodId(mmMoods, id)
    /\ lsMoods' = save(mmMoods', storageOk)
    /\ notice' = "Mood entry deleted"
    /\ UNCHANGED <<pending, moodDay, nextMoodId, slMoods, lsSliceMoods>>
    /\ UNCHANGED moodOthers

\* moodsSlice.addMood(payload)
addMood(payload) ==
    /\ Len(slMoods) < MaxSliceMoods
    /\ payload.id = Len(slMoods) + 1      \* the caller made a fresh id
    /\ payload.date = moodDay             \* for an entry of the current date
    /\ slMoods' = Append(slMoods, payload)
    /\ lsSliceMoods' = slMoods'
    /\ UNCHANGED <<mmMoods, lsMoods, pending, moodDay, nextMoodId, notice>>
    /\ UNCHANGED moodOthers

\* Midnight (UTC) passes.
MoodTick ==
    /\ moodDay < MaxMoodDay
    /\ moodDay' = moodDay + 1
    /\ UNCHANGED <<mmMoods, lsMoods, pending, nextMoodId, notice, slMoods,
                   lsSliceMoods>>
    /\ UNCHANGED moodOthers

\* The entries callers hand to addMood.
SlicePayloads ==
    { MoodEntry(id, d, "Happy") : id \in 1..MaxSliceMoods, d \in 0..MaxMoodDay }

\* Every dialog logMood can open.
Dialogs ==
    [target : 1..MaxMoodId,
     entry : { MoodEntry(id, d, m) :
                 id \in 1..MaxMoodId, d \in 0..MaxMoodDay, m \in MoodInputs }]

NextMood ==
    \/ \E m \in MoodInputs : \E ok \in BOOLEAN : logMood(m, ok)
    \/ \E d \in Dialogs : \E ok \in BOOLEAN : confirmOverwrite(d, ok)
    \/ \E d \in Dialogs : cancelOverwrite(d)
    \/ \E id \in 1..MaxMoodId : \E ok \in BOOLEAN : deleteMood(id, ok)
    \/ \E payload \in SlicePayloads : addMood(payload)
    \/ MoodTick

OnePerDate(moods) ==
    \A i, j \in 1..Len(moods) : moods[i].date = moods[j].date => i = j

\* C8 as stated: every mood collection, whether MoodManager's or the moods
\* slice's, holds at most one entry per calendar date.
C8_OneEntryPerDate ==
    /\ OnePerDate(mmMoods)
    /\ OnePerDate(slMoods)

\* C8, amended: the collection MoodManager keeps through logMood, overwrite
\* confirmation or cancellation and deleteMood, in memory and as stored,
\* holds at most one entry per calendar date.
C8_LoggedOnePerDate ==
    /\ OnePerDate(mmMoods)
    /\ OnePerDate(lsMoods)

\* An overwrite has been confirmed on a collection that spans two dates: the
\* overwritten object carries the id of the later log.
C8_Overwritten ==
    /\ notice = "Mood updated!"
    /\ Len(mmMoods) = 2
    /\ \E i \in 1..Len(mmMoods) : mmMoods[i].id # mmMoods[i].obj

MoodIdle ==
    /\ mmMoods = << >>
    /\ lsMoods = << >>
    /\ pending = {}
    /\ moodDay = 0
    /\ nextMoodId = 1
    /\ notice = ""
    /\ slMoods = << >>
    /\ lsSliceMoods = << >>

(***************************************************************************)
(* Legacy task manager: TaskManager, App.importData and the functions      *)
(* that refresh the derived views (js/utils/script.js, js/app.js).         *)
(*                                                                         *)
(* dom holds what the page shows: #completionRate, #streakCount,           *)
(* #userLevel and the XP of #userXP.                                       *)
(***************************************************************************)

MaxTmTasks == 2        \* bound: tasks added in a run
MaxTmTime == 3         \* bound: the clock runs over ticks 0..MaxTmTime

XpPerTask == 10
XpPerLevel == 100

\* The number of completed tasks: tasks.filter(t => t.completed).length
CompletedCount(tasks) == Cardinality(CompletedTasks(tasks))

\* updateProductivityStats: the rate written to #completionRate
CompletionRate(tasks) ==
    IF Len(tasks) > 0 THEN RoundPercent(CompletedCount(tasks), Len(tasks)) ELSE 0

\* updateGamification: xp, level and xpInLevel
GamXp(completedCount) == completedCount * XpPerTask
GamLevelFromZero(xp) == xp \div XpPerLevel
GamLevel(xp) == (xp \div XpPerLevel) + 1
GamXpInLevel(xp) == xp % XpPerLevel

Dom(rate, streak, level, xp) ==
    [completionRate |-> rate, streakCount |-> streak, userLevel |-> level,
     userXP |-> xp]

\* updateProductivityStats(), which ends by calling updateStreak()
updateProductivityStats(d, tasks, t, offset) ==
    [d EXCEPT !.completionRate = CompletionRate(tasks),
              !.streakCount = ComputeStreak(tasks, t, offset)]

\* updateGamification()
updateGamification(d, tasks) ==
    [d EXCEPT !.userLevel = GamLevel(GamXp(CompletedCount(tasks))),
              !.userXP = GamXpInLevel(GamXp(CompletedCount(tasks)))]

\* TaskManager.save(): DataManager.set(TASKS, this.tasks); when setItem throws
\* the stored snapshot stays and no event is dispatched.
tmSave(tasks, storageOk) == IF storageOk THEN tasks ELSE tmStore

\* App.handleDataChange on the dataChanged event of the tasks key
handleDataChange(d, tasks, storageOk, t, offset) ==
    IF storageOk THEN updateProductivityStats(d, tasks, t, offset) ELSE d

\* The page has loaded on an empty store.
TmInit ==
    /\ tmTasks = << >>
    /\ tmStore = << >>
    /\ tmNow = 0
    /\ tmTz \in TzOffsets
    /\ tmNextId = 1
    /\ pendingDelete = {}
    /\ dom = Dom(0, 0, 1, 0)

\* TaskManager.addTask() with a valid title
tmAddTask(storageOk) ==
    /\ tmNextId <= MaxTmTasks
    /\ tmTasks' = Append(tmTasks, StoredTask(tmNextId, FALSE, None))
    /\ tmStore' = tmSave(tmTasks', storageOk)
    /\ tmNextId' = tmNextId + 1
    /\ dom' = updateGamification(
                 updateProductivityStats(
                    handleDataChange(dom, tmStore', storageOk, tmNow, tmTz),
                    tmStore', tmNow, tmTz),
                 tmStore')
    /\ UNCHANGED <<tmNow, tmTz, pendingDelete>>
    /\ UNCHANGED tmOthers

\* task.completed = !task.completed; completedAt is set on completion
tmToggled(task, at) ==
    StoredTask(task.id, ~task.completed,
               IF ~task.completed THEN at ELSE task.completedAt)

\* TaskManager.toggleTask(taskId)
toggleTask(taskId, storageOk) ==
    /\ \E k \in 1..Len(tmTasks) : tmTasks[k].id = taskId
    /\ tmTasks' = [k \in 1..Len(tmTasks) |->
                     IF tmTasks[k].id = taskId
                        /\ \A j \in 1..(k - 1) : tmTasks[j].id # taskId
                     THEN tmToggled(tmTasks[k], tmNow)
                     ELSE tmTasks[k]]
    /\ tmStore' = tmSave(tmTasks', storageOk)
    /\ dom' = updateProductivityStats(
                 handleDataChange(dom, tmStore', storageOk, tmNow, tmTz),
                 tmStore', tmNow, tmTz)
    /\ UNCHANGED <<tmNow, tmTz, tmNextId, pendingDelete>>
    /\ UNCHANGED tmOthers

\* TaskManager.deleteTask(taskId), up to the point where it returns
tmDeleteTask(taskId) ==
    /\ pendingDelete' = pendingDelete \cup {taskId}
    /\ taskId \notin pendingDelete
    /\ UNCHANGED <<tmTasks, tmStore, tmNow, tmTz, tmNextId, dom>>
    /\ UNCHANGED tmOthers

\* The delete dialog resolves
tmDeleteSettle(taskId, confirmed, storageOk) ==
    /\ taskId \in pendingDelete
    /\ pendingDelete' = pendingDelete \ {taskId}
    /\ IF confirmed
       THEN /\ tmTasks' = WithoutId(tmTasks, taskId)
            /\ tmStore' = tmSave(tmTasks', storageOk)
            /\ dom' = updateProductivityStats(
                         handleDataChange(dom, tmStore', storageOk, tmNow, tmTz),
                         tmStore', tmNow, tmTz)
       ELSE UNCHANGED <<tmTasks, tmStore, dom>>
    /\ UNCHANGED <<tmNow, tmTz, tmNextId>>
    /\ UNCHANGED tmOthers

\* Task lists of backup files that name the collection TASKS.
ImportedTaskLists ==
    { << >>, <<StoredTask(MaxTmTasks + 1, FALSE, None)>>,
      <<StoredTask(MaxTmTasks + 1, TRUE, 0)>> }

\* App.importData(): DataManager.importData(data, { merge: false }) and the
\* refresh of the page; TaskManager.tasks is not reloaded.
appImportData(tasks) ==
    /\ tmStore' = tasks
    /\ dom' = updateGamification(
                 updateProductivityStats(
                    handleDataChange(dom, tasks, TRUE, tmNow, tmTz),
                    tasks, tmNow, tmTz),
                 tasks)
    /\ UNCHANGED <<tmTasks, tmNow, tmTz, tmNextId, pendingDelete>>
    /\ UNCHANGED tmOthers

TmTick ==
    /\ tmNow < MaxTmTime
    /\ tmNow' = tmNow + 1
    /\ UNCHANGED <<tmTasks, tmStore, tmTz, tmNextId, pendingDelete, dom>>
    /\ UNCHANGED tmOthers

NextTm ==
    \/ \E ok \in BOOLEAN : tmAddTask(ok)
    \/ \E id \in 1..(MaxTmTasks + 1) : \E ok \in BOOLEAN : toggleTask(id, ok)
    \/ \E id \in 1..MaxTmTasks : tmDeleteTask(id)
    \/ \E id \in 1..MaxTmTasks : \E c, ok \in BOOLEAN :
          tmDeleteSettle(id, c, ok)
    \/ \E tasks \in ImportedTaskLists : appImportData(tasks)
    \/ TmTick

\* The derived views computed from a task list at an instant.
Derived(tasks, t, offset) ==
    Dom(CompletionRate(tasks), ComputeStreak(tasks, t, offset),
        GamLevel(GamXp(CompletedCount(tasks))),
        GamXpInLevel(GamXp(CompletedCount(tasks))))

\* C11: whenever the stored task set changes, the displayed completion rate,
\* streak, level and XP are, once the change has completed, the values
\* computed from the task set as it then is.
C11_ViewsFollowTasks ==
    [][tmStore' # tmStore => dom' = Derived(tmStore', tmNow', tmTz')]_vars

\* C13: for every timezone offset and every time of day, once a task has been
\* completed and stored, the streak recomputed in the same call is at least 1.
C13_CompletionCountsToday ==
    [][(/\ Len(tmTasks') = Len(tmTasks)
        /\ tmStore' = tmTasks'
        /\ \E k \in 1..Len(tmTasks) :
              tmTasks'[k].completed /\ ~tmTasks[k].completed)
       => dom'.streakCount >= 1]_vars

\* C26: TaskManager's in-memory task list equals the stored tasks snapshot
\* whenever no operation is in progress: every operation that changes the
\* stored snapshot, an import included, leaves the in-memory list equal to it.
C26_MemoryEqualsStored ==
    [][tmStore' # tmStore => tmTasks' = tmStore']_vars

TmIdle ==
    /\ tmTasks = << >>
    /\ tmStore = << >>
    /\ tmNow = 0
    /\ tmTz = 0
    /\ tmNextId = 1
    /\ pendingDelete = {}
    /\ dom = Dom(0, 0, 1, 0)

(***************************************************************************)
(* Mood analytics: MoodService.getAnalytics (store/index.ts) and the       *)
(* legacy MoodManager.getWeeklyAverage, getMonthlyAverage and getMoodTrend *)
(* (js/utils/script.js, unnamed/part_008).                                 *)
(*                                                                         *)
(* A mood is named by the label of its emoji.  An average is kept as the   *)
(* fraction num/den; on windows of at most 7 values between 1 and 5, with  *)
(* the second window empty unless the first is full, the comparisons of    *)
(* the doubles decide as the comparisons of the fractions do.              *)
(***************************************************************************)

MaxTrendMoods == 8     \* bound: entries in the mood list

WeekWindow == 7
MonthWindow == 30
NeutralMean == 3

\* moodValues of getAnalytics
moodValues ==
    [m \in {"Excited", "Happy", "Neutral", "Sad", "Frustrated", "Tired",
            "Thoughtful", "Loved"} |->
        CASE m \in {"Excited", "Loved"} -> 5
          [] m = "Happy" -> 4
          [] m \in {"Neutral", "Thoughtful"} -> 3
          [] m \in {"Sad", "Tired"} -> 2
          [] m = "Frustrated" -> 1]

TrendMoodInputs == {"Happy", "Neutral", "Sad"}

Frac(num, den) == [num |-> num, den |-> den]

\* array.slice(from, to) with 0 <= from <= to
Slice(q, from, to) ==
    LET hi == IF to < Len(q) THEN to ELSE Len(q)
        lo == IF from < hi THEN from ELSE hi
    IN [i \in 1..(hi - lo) |-> q[lo + i]]

\* array.slice(-n)
SliceLast(q, n) == Slice(q, IF Len(q) > n THEN Len(q) - n ELSE 0, Len(q))

RECURSIVE SumSeq(_)
SumSeq(q) == IF q = << >> THEN 0 ELSE Head(q) + SumSeq(Tail(q))

\* moodValues[m.mood] || 3 over a window
ServiceValues(window) ==
    [i \in 1..Len(window) |->
        IF window[i] \in DOMAIN moodValues THEN moodValues[window[i]]
        ELSE NeutralMean]

\* window.length > 0 ? window.reduce(...) / window.length : 3
ServiceAverage(window) ==
    IF Len(window) > 0 THEN Frac(SumSeq(ServiceValues(window)), Len(window))
    ELSE Frac(NeutralMean, 1)

\* a > b + 0.5
MoreThanHalfAbove(a, b) ==
    2 * a.num * b.den > 2 * b.num * a.den + a.den * b.den

\* The comparison of the trend made inclusive.
TrendOfInclusive(recent, previous) ==
    IF MoreThanHalfAbove(recent, previous)
          \/ 2 * recent.num * previous.den
                = 2 * previous.num * recent.den + recent.den * previous.den
    THEN "improving"
    ELSE IF MoreThanHalfAbove(previous, recent) THEN "declining"
    ELSE "stable"

\* if (avg1 > avg2 + 0.5) improving; else if (avg1 < avg2 - 0.5) declining;
\* else stable
TrendOf(recent, previous) ==
    IF MoreThanHalfAbove(recent, previous) THEN "improving"
    ELSE IF MoreThanHalfAbove(previous, recent) THEN "declining"
    ELSE "stable"

Out(op, weekly, monthly, trend) ==
    [op |-> op, weekly |-> weekly, monthly |-> monthly, trend |-> trend]

NoOut == Out("", Frac(0, 1), Frac(0, 1), "")

AnInit ==
    /\ anMoods \in UNION { [1..n -> TrendMoodInputs] : n \in 0..MaxTrendMoods }
    /\ anOut = NoOut

\* MoodService.getAnalytics() on the list getMoods returned
getAnalytics ==
    /\ anOut' = Out("getAnalytics",
                    ServiceAverage(Slice(anMoods, 0, WeekWindow)),
                    ServiceAverage(Slice(anMoods, 0, MonthWindow)),
                    TrendOf(ServiceAverage(Slice(anMoods, 0, WeekWindow)),
                            ServiceAverage(Slice(anMoods, WeekWindow,
                                                 2 * WeekWindow))))
    /\ UNCHANGED anMoods
    /\ UNCHANGED anOthers

\* MoodManager.moods for the same entries: oldest first, one entry a day up
\* to today, each with the moodValue logMood gave it.
AnToday == MaxTrendMoods + MonthWindow

LegacyMoods(labels) ==
    [j \in 1..Len(labels) |->
        MoodEntry(j, AnToday - (Len(labels) - j), labels[Len(labels) + 1 - j])]

\* this.moods.filter(m => m.date >= from && m.date <= today)
RECURSIVE DateWindow(_, _, _)
DateWindow(moods, from, today) ==
    IF moods = << >> THEN << >>
    ELSE (IF Head(moods).date >= from /\ Head(moods).date <= today
          THEN <<Head(moods)>> ELSE << >>)
            \o DateWindow(Tail(moods), from, today)

\* m.moodValue || 3 over a window
LegacyValues(window) ==
    [i \in 1..Len(window) |->
        IF window[i].moodValue # 0 THEN window[i].moodValue ELSE NeutralMean]

\* (sum / length).toFixed(1): the average in tenths, halves rounded up; 0 for
\* an empty window
LegacyAverage(window) ==
    IF Len(window) = 0 THEN Frac(0, 1)
    ELSE Frac((20 * SumSeq(LegacyValues(window)) + Len(window))
                 \div (2 * Len(window)), 10)

\* MoodManager.getWeeklyAverage()
getWeeklyAverage ==
    /\ anOut' = [NoOut EXCEPT
                   !.op = "getWeeklyAverage",
                   !.weekly = LegacyAverage(
                       DateWindow(LegacyMoods(anMoods), AnToday - WeekWindow,
                                  AnToday))]
    /\ UNCHANGED anMoods
    /\ UNCHANGED anOthers

\* MoodManager.getMonthlyAverage()
getMonthlyAverage ==
    /\ anOut' = [NoOut EXCEPT
                   !.op = "getMonthlyAverage",
                   !.monthly = LegacyAverage(
                       DateWindow(LegacyMoods(anMoods), AnToday - MonthWindow,
                                  AnToday))]
    /\ UNCHANGED anMoods
    /\ UNCHANGED anOthers

\* The trend getMoodTrend returns for a list of entries.
LegacyTrend(moods) ==
    LET recent == SliceLast(moods, WeekWindow)
        half == Len(recent) \div 2
        firstHalf == LegacyValues(Slice(recent, 0, half))
        secondHalf == LegacyValues(Slice(recent, half, Len(recent)))
    IN IF Len(recent) < 2 THEN "stable"
       ELSE TrendOf(Frac(SumSeq(secondHalf), Len(secondHalf)),
                    Frac(SumSeq(firstHalf), Len(firstHalf)))

\* MoodManager.getMoodTrend()
getMoodTrend ==
    /\ anOut' = [NoOut EXCEPT !.op = "getMoodTrend",
                              !.trend = LegacyTrend(LegacyMoods(anMoods))]
    /\ UNCHANGED anMoods
    /\ UNCHANGED anOthers

NextAn ==
    \/ getAnalytics
    \/ getWeeklyAverage
    \/ getMonthlyAverage
    \/ getMoodTrend

\* The mean of a window of values, 3 when the window is empty.
MeanOrNeutral(values) ==
    IF Len(values) = 0 THEN Frac(NeutralMean, 1)
    ELSE Frac(SumSeq(values), Len(values))

\* improving when r - p > 1/2, declining when r - p < -1/2, stable otherwise
ExpectedTrend(r, p) ==
    LET twiceDiff == 2 * (r.num * p.den - p.num * r.den)
        unit == r.den * p.den
    IN IF twiceDiff > unit THEN "improving"
       ELSE IF twiceDiff < -unit THEN "declining"
       ELSE "stable"

IsMean(a, num, den) == a.num * den = num * a.den

\* The two windows getAnalytics compares, and the two getMoodTrend compares.
RecentWeek == ServiceValues(Slice(anMoods, 0, WeekWindow))
PreviousWeek == ServiceValues(Slice(anMoods, WeekWindow, 2 * WeekWindow))
LaterHalf ==
    LET recent == SliceLast(LegacyMoods(anMoods), WeekWindow)
    IN LegacyValues(Slice(recent, Len(recent) \div 2, Len(recent)))
EarlierHalf ==
    LET recent == SliceLast(LegacyMoods(anMoods), WeekWindow)
    IN LegacyValues(Slice(recent, 0, Len(recent) \div 2))

\* C14: the trend is improving exactly when the recent mean exceeds the
\* previous mean by more than 0.5, declining exactly when it is more than 0.5
\* below, and stable otherwise; 4.0 against 3.0 is improving, 2.0 against 3.0
\* declining and 3.2 against 3.0 stable.
C14_TrendThresholds ==
    /\ anOut.op = "getAnalytics" =>
          LET r == MeanOrNeutral(RecentWeek)
              p == MeanOrNeutral(PreviousWeek)
          IN /\ anOut.trend = ExpectedTrend(r, p)
             /\ IsMean(r, 4, 1) /\ IsMean(p, 3, 1) => anOut.trend = "improving"
             /\ IsMean(r, 2, 1) /\ IsMean(p, 3, 1) => anOut.trend = "declining"
             /\ IsMean(r, 16, 5) /\ IsMean(p, 3, 1) => anOut.trend = "stable"
    /\ (anOut.op = "getMoodTrend" /\ Len(anMoods) >= 2) =>
          anOut.trend = ExpectedTrend(MeanOrNeutral(LaterHalf),
                                      MeanOrNeutral(EarlierHalf))

\* getAnalytics has classified a recent mean of 3.2 against a previous mean
\* of 3.0.
C14_ThreePointTwoAgainstThree ==
    /\ anOut.op = "getAnalytics"
    /\ IsMean(MeanOrNeutral(RecentWeek), 16, 5)
    /\ IsMean(MeanOrNeutral(PreviousWeek), 3, 1)
    /\ anOut.trend = "stable"

\* C15: an empty window has mean 3: the average reported for a window without
\* entries is 3, and the trend is the one that 3 as that window's mean gives.
C15_EmptyWindowIsNeutral ==
    /\ (anOut.op = "getAnalytics" /\ Len(anMoods) = 0) =>
          IsMean(anOut.weekly, NeutralMean, 1) /\ IsMean(anOut.monthly, NeutralMean, 1)
    /\ (anOut.op = "getAnalytics" /\ Len(PreviousWeek) = 0) =>
          anOut.trend = ExpectedTrend(MeanOrNeutral(RecentWeek),
                                      Frac(NeutralMean, 1))
    /\ (anOut.op = "getWeeklyAverage" /\ Len(anMoods) = 0) =>
          IsMean(anOut.weekly, NeutralMean, 1)
    /\ (anOut.op = "getMonthlyAverage" /\ Len(anMoods) = 0) =>
          IsMean(anOut.monthly, NeutralMean, 1)
    /\ (anOut.op = "getMoodTrend" /\ Len(EarlierHalf) = 0) =>
          anOut.trend = ExpectedTrend(MeanOrNeutral(LaterHalf),
                                      Frac(NeutralMean, 1))

AnIdle ==
    /\ anMoods = << >>
    /\ anOut = Out("", Frac(0, 1), Frac(0, 1), "")

(***************************************************************************)
(* Chart series: ChartManager.getProductivityData and getMoodData          *)
(* (js/utils/script.js, unnamed/part_008).                                 *)
(*                                                                         *)
(* A date is the number of its UTC day; the date part of an ISO timestamp  *)
(* and the dateStr of a day of the series are both UTC dates.              *)
(***************************************************************************)

MaxChartMoods == 2     \* bound: stored mood entries
MaxChartTasks == 1     \* bound: stored tasks

SeriesDays == 7

\* moodMap of getMoodData
moodMap ==
    [m \in {"Happy", "Excited", "Neutral", "Sad", "Frustrated", "Tired",
            "Thoughtful", "Loved"} |->
        CASE m \in {"Happy", "Excited", "Loved"} -> 5
          [] m \in {"Neutral", "Thoughtful"} -> 3
          [] m \in {"Frustrated", "Tired"} -> 2
          [] m = "Sad" -> 1]

\* Today, and the dates stored records carry: the days of the series and the
\* day before them.
ChartToday == SeriesDays
ChartDates == (ChartToday - SeriesDays)..ChartToday

\* d.setDate(d.getDate() - i); d.toISOString().split('T')[0]
SeriesDate(i) == ChartToday - i

ChartMoodShapes == [date : ChartDates, mood : {"Happy", "Unknown"}]
ChartTaskShapes ==
    [completed : BOOLEAN, completedAt : {None} \cup ChartDates]

ChartInit ==
    /\ chMoods \in UNION { [1..n -> ChartMoodShapes] : n \in 0..MaxChartMoods }
    /\ chTasks \in UNION { [1..n -> ChartTaskShapes] : n \in 0..MaxChartTasks }
    /\ chOut = [op |-> "", data |-> << >>]

\* tasks.filter(t => t.completed && t.completedAt &&
\*                   t.completedAt.startsWith(dateStr)).length
CompletedOn(tasks, date) ==
    Cardinality({ k \in 1..Len(tasks) :
                    /\ tasks[k].completed
                    /\ tasks[k].completedAt # None
                    /\ tasks[k].completedAt = date })

\* ChartManager.getProductivityData(): i runs from 6 down to 0
getProductivityData ==
    /\ chOut' = [op |-> "getProductivityData",
                 data |-> [j \in 1..SeriesDays |->
                             CompletedOn(chTasks, SeriesDate(SeriesDays - j))]]
    /\ UNCHANGED <<chMoods, chTasks>>
    /\ UNCHANGED chOthers

\* moods.filter(m => m.date === dateStr), as moodMap[m.mood] || 3
RECURSIVE DayMoodValues(_, _)
DayMoodValues(moods, date) ==
    IF moods = << >> THEN << >>
    ELSE (IF Head(moods).date = date
          THEN <<IF Head(moods).mood \in DOMAIN moodMap
                 THEN moodMap[Head(moods).mood] ELSE NeutralMean>>
          ELSE << >>)
            \o DayMoodValues(Tail(moods), date)

\* Math.round(sum / n) for n > 0: halves are rounded up
RoundMean(sum, n) == (2 * sum + n) \div (2 * n)

\* The value getMoodData pushes for one day.
DayMood(moods, date) ==
    LET dayMoods == DayMoodValues(moods, date)
    IN IF Len(dayMoods) > 0 THEN RoundMean(SumSeq(dayMoods), Len(dayMoods))
       ELSE 0

\* ChartManager.getMoodData()
getMoodData ==
    /\ chOut' = [op |-> "getMoodData",
                 data |-> [j \in 1..SeriesDays |->
                             DayMood(chMoods, SeriesDate(SeriesDays - j))]]
    /\ UNCHANGED <<chMoods, chTasks>>
    /\ UNCHANGED chOthers

NextChart ==
    \/ getProductivityData
    \/ getMoodData

\* C16: in the 7-day series a day without a mood entry has value 3 in the mood
\* series, and a day without a completion has value 0 in the task series.
C16_SeriesDefaults ==
    /\ chOut.op = "getMoodData" =>
          \A j \in 1..SeriesDays :
             (\A k \in 1..Len(chMoods) :
                 chMoods[k].date # ChartToday - (SeriesDays - j))
             => chOut.data[j] = NeutralMean
    /\ chOut.op = "getProductivityData" =>
          \A j \in 1..SeriesDays :
             (\A k \in 1..Len(chTasks) :
                 ~(chTasks[k].completed
                     /\ chTasks[k].completedAt = ChartToday - (SeriesDays - j)))
             => chOut.data[j] = 0

ChartIdle ==
    /\ chMoods = << >>
    /\ chTasks = << >>
    /\ chOut = [op |-> "", data |-> << >>]

(***************************************************************************)
(* Transaction analytics: TransactionManager.getCategoryBreakdown and      *)
(* getMonthlyTrend (js/transactionManager.js) and                          *)
(* TransactionService.getAnalytics (unnamed/part_004).                     *)
(*                                                                         *)
(* A date "YYYY-MM-DD" is a record of its three numbers; its first seven   *)
(* characters, the month label "YYYY-MM", are the pair <<year, month>>.    *)
(***************************************************************************)

MaxTxMonths == 7       \* bound: calendar months in which records are made

TrendMonths == 6

\* The k-th month of the records starts in September 2023, so that the
\* months run over the turn of a year.
TxDate(k, day) ==
    [year |-> 2023 + ((k + 7) \div 12), month |-> ((k + 7) % 12) + 1,
     day |-> day]

Tx(category, amount, date) ==
    [category |-> category, amount |-> amount, date |-> date]

\* What is recorded in month k: nothing, one expense, another expense, or an
\* income and an expense.
TxMonthInputs(k) ==
    { << >>,
      <<Tx("food", 1, TxDate(k, 3))>>,
      <<Tx("transport", 7, TxDate(k, 10))>>,
      <<Tx("income", 5, TxDate(k, 1)), Tx("food", 1, TxDate(k, 20))>> }

RECURSIVE TxLists(_)
TxLists(k) ==
    IF k = 0 THEN { << >> }
    ELSE { earlier \o month : earlier \in TxLists(k - 1),
                              month \in TxMonthInputs(k) }

NoTxOut == [op |-> "", breakdown |-> << >>, trend |-> << >>]

TxInit ==
    /\ transactions \in TxLists(MaxTxMonths)
    /\ txOut = NoTxOut

Abs(x) == IF x < 0 THEN -x ELSE x

\* The keys of an object filled by forEach, in the order of their insertion.
RECURSIVE FirstSeen(_)
FirstSeen(q) ==
    IF q = << >> THEN << >>
    ELSE LET front == FirstSeen(SubSeq(q, 1, Len(q) - 1))
             last == q[Len(q)]
         IN IF \E i \in 1..Len(front) : front[i] = last
            THEN front ELSE Append(front, last)

\* (a, b) => b.amount - a.amount leaves a before b
AmountOrderAscending(a, b) == a.amount <= b.amount
AmountOrder(a, b) == a.amount >= b.amount

\* entries.sort((a, b) => b.amount - a.amount): stable
RECURSIVE SortByAmount(_)
SortByAmount(q) ==
    IF q = << >> THEN << >>
    ELSE LET sorted == SortByAmount(SubSeq(q, 1, Len(q) - 1))
             e == q[Len(q)]
             n == Cardinality({ i \in 1..Len(sorted) : AmountOrder(sorted[i], e) })
         IN SubSeq(sorted, 1, n) \o <<e>> \o SubSeq(sorted, n + 1, Len(sorted))

\* t.date.substring(0, 7)
MonthLabel(t) == <<t.date.year, t.date.month>>

\* a.localeCompare(b) <= 0 on two labels "YYYY-MM"
LabelOrder(a, b) == a[1] < b[1] \/ (a[1] = b[1] /\ a[2] <= b[2])

\* entries.sort((a, b) => a.month.localeCompare(b.month))
RECURSIVE SortByMonth(_)
SortByMonth(q) ==
    IF q = << >> THEN << >>
    ELSE LET sorted == SortByMonth(SubSeq(q, 1, Len(q) - 1))
             e == q[Len(q)]
             n == Cardinality({ i \in 1..Len(sorted) :
                                  LabelOrder(sorted[i].month, e.month) })
         IN SubSeq(sorted, 1, n) \o <<e>> \o SubSeq(sorted, n + 1, Len(sorted))

\* .slice(-6)
TrendSliceFirst(entries) == Slice(entries, 0, TrendMonths)
TrendSlice(entries) == SliceLast(entries, TrendMonths)

Amounts(txs) == [i \in 1..Len(txs) |-> txs[i].amount]
AbsAmounts(txs) == [i \in 1..Len(txs) |-> Abs(txs[i].amount)]

\* TransactionManager.getCategoryBreakdown()
LegacyBreakdown(txs) ==
    LET expenses == SelectSeq(txs, LAMBDA t : t.category # "income")
        total == SumSeq(AbsAmounts(expenses))
        categories == FirstSeen([i \in 1..Len(expenses) |-> expenses[i].category])
        entry(c) ==
            LET amount == SumSeq(AbsAmounts(SelectSeq(expenses, LAMBDA t : t.category = c)))
            IN [category |-> c, amount |-> amount,
                percentage |-> IF total > 0 THEN Frac(RoundPercent(amount, total), 1)
                               ELSE Frac(0, 1)]
    IN SortByAmount([i \in 1..Len(categories) |-> entry(categories[i])])

getCategoryBreakdown ==
    /\ txOut' = [op |-> "getCategoryBreakdown",
                 breakdown |-> LegacyBreakdown(transactions), trend |-> << >>]
    /\ UNCHANGED transactions
    /\ UNCHANGED txOthers

\* The monthlyData object and its entries in insertion order; the legacy
\* manager adds Math.abs(t.amount) to a month's expenses, the service t.amount.
MonthlyEntries(txs, magnitudes) ==
    LET months == FirstSeen([i \in 1..Len(txs) |-> MonthLabel(txs[i])])
        entry(m) ==
            LET inMonth == SelectSeq(txs, LAMBDA t : MonthLabel(t) = m)
                incomes == SelectSeq(inMonth, LAMBDA t : t.category = "income")
                others == SelectSeq(inMonth, LAMBDA t : t.category # "income")
            IN [month |-> m, income |-> SumSeq(Amounts(incomes)),
                expenses |-> SumSeq(IF magnitudes THEN AbsAmounts(others)
                                    ELSE Amounts(others))]
    IN [i \in 1..Len(months) |-> entry(months[i])]

\* TransactionManager.getMonthlyTrend()
LegacyTrendOf(txs) ==
    TrendSlice(SortByMonth(MonthlyEntries(txs, TRUE)))

getMonthlyTrend ==
    /\ txOut' = [op |-> "getMonthlyTrend", breakdown |-> << >>,
                 trend |-> LegacyTrendOf(transactions)]
    /\ UNCHANGED transactions
    /\ UNCHANGED txOthers

expenseCategories ==
    <<"food", "transport", "entertainment", "bills", "shopping", "healthcare",
      "education", "other">>

\* TransactionService.getTransactions(): the remote collection ordered by
\* date descending, or the local list when the remote read fails.
getTransactions(fromRemote) ==
    IF fromRemote THEN Reverse(transactions) ELSE transactions

\* categoryBreakdown of TransactionService.getAnalytics()
ServiceBreakdown(txs) ==
    LET totalExpenses ==
            SumSeq(Amounts(SelectSeq(txs, LAMBDA t : t.category # "income")))
        entry(c) ==
            LET amount == SumSeq(Amounts(SelectSeq(txs, LAMBDA t : t.category = c)))
            IN [category |-> c, amount |-> amount,
                percentage |-> IF totalExpenses > 0
                               THEN Frac(amount * 100, totalExpenses)
                               ELSE Frac(0, 1)]
        all == [i \in 1..Len(expenseCategories) |-> entry(expenseCategories[i])]
    IN SortByAmount(SelectSeq(all, LAMBDA c : c.amount > 0))

\* monthlyTrend of TransactionService.getAnalytics()
ServiceTrendOf(txs) ==
    TrendSlice(SortByMonth(MonthlyEntries(txs, FALSE)))

\* TransactionService.getAnalytics()
txGetAnalytics(fromRemote) ==
    /\ txOut' = [op |-> "getAnalytics",
                 breakdown |-> ServiceBreakdown(getTransactions(fromRemote)),
                 trend |-> ServiceTrendOf(getTransactions(fromRemote))]
    /\ UNCHANGED transactions
    /\ UNCHANGED txOthers

NextTx ==
    \/ getCategoryBreakdown
    \/ getMonthlyTrend
    \/ \E fromRemote \in BOOLEAN : txGetAnalytics(fromRemote)

HasBreakdown == txOut.op \in {"getCategoryBreakdown", "getAnalytics"}
HasTrend == txOut.op \in {"getMonthlyTrend", "getAnalytics"}

ExpenseRecords == { i \in 1..Len(transactions) : transactions[i].category # "income" }

\* C17: the percentages of the category breakdown sum to at most 100, and
\* with no expense record the breakdown reports no percentage other than 0.
C17_PercentagesAtMostHundred ==
    HasBreakdown =>
        LET b == txOut.breakdown
        IN /\ \A i \in 1..Len(b) :
                SumSeq([j \in 1..Len(b) |-> b[j].percentage.num])
                    <= 100 * b[i].percentage.den
           /\ ExpenseRecords = {} => \A i \in 1..Len(b) : b[i].percentage.num = 0

MonthsWithRecords ==
    { <<transactions[i].date.year, transactions[i].date.month>> :
        i \in 1..Len(transactions) }

Earlier(a, b) == 12 * a[1] + a[2] < 12 * b[1] + b[2]

\* C18: the monthly trend has at most 6 entries, one per calendar month, in
\* ascending chronological order, and they are the most recent months that
\* have records.
C18_MonthlyTrendRecentSix ==
    HasTrend =>
        LET trend == txOut.trend
            included == { trend[i].month : i \in 1..Len(trend) }
        IN /\ Len(trend) <= 6
           /\ \A i \in 1..Len(trend) : trend[i].month[2] \in 1..12
           /\ \A i, j \in 1..Len(trend) :
                i < j => Earlier(trend[i].month, trend[j].month)
           /\ included \subseteq MonthsWithRecords
           /\ \A m \in MonthsWithRecords \ included :
                \A n \in included : Earlier(m, n)
           /\ Cardinality(MonthsWithRecords) <= 6 => included = MonthsWithRecords
           /\ Cardinality(MonthsWithRecords) > 6 => Len(trend) = 6

\* More than six months have records, added latest first, and the trend left
\* the earliest out.
C18_SeventhMonthDropped ==
    /\ txOut.op = "getAnalytics"
    /\ Cardinality(MonthsWithRecords) > 6
    /\ Len(txOut.trend) = 6
    /\ \E m \in MonthsWithRecords : \A i \in 1..6 : txOut.trend[i].month # m
    /\ txOut.trend[1].month[1] < txOut.trend[6].month[1]

SummedAmount(c) ==
    LET RECURSIVE Sum(_)
        Sum(i) == IF i = 0 THEN 0
                  ELSE Sum(i - 1) + (IF transactions[i].category = c
                                     THEN transactions[i].amount ELSE 0)
    IN Sum(Len(transactions))

TxIdle ==
    /\ transactions = << >>
    /\ txOut = [op |-> "", breakdown |-> << >>, trend |-> << >>]

(***************************************************************************)
(* XP and level: updateGamification (js/app.js, js/utils/script.js) over   *)
(* stored task lists of every number of completed tasks.                   *)
(***************************************************************************)

MaxXpCompleted == 25   \* bound: completed tasks stored
MaxXpOpen == 3         \* bound: uncompleted tasks stored

\* A stored list of `done` completed tasks followed by `open` uncompleted ones.
XpTaskList(done, open) ==
    [k \in 1..(done + open) |-> [id |-> k, completed |-> k <= done]]

NoXpOut == [xp |-> None, level |-> None, xpInLevel |-> None]

XpInit ==
    /\ xpTasks \in { XpTaskList(done, open) :
                       done \in 0..MaxXpCompleted, open \in 0..MaxXpOpen }
    /\ xpOut = NoXpOut

\* updateGamification(): the xp it computes, and the level and the XP within
\* the level it writes to #userLevel and #userXP
xpUpdateGamification ==
    LET d == updateGamification(Dom(0, 0, 1, 0), xpTasks)
    IN /\ xpOut' = [xp |-> GamXp(CompletedCount(xpTasks)),
                    level |-> d.userLevel, xpInLevel |-> d.userXP]
       /\ UNCHANGED xpTasks
       /\ UNCHANGED xpOthers

NextXp == xpUpdateGamification

CompletedStored == Cardinality({ k \in 1..Len(xpTasks) : xpTasks[k].completed })

\* C20: for n completed tasks XP = 10 n, level = floor(XP / 100) + 1 and the
\* XP within the level = XP mod 100, so 0 <= XP within the level < 100 and
\* 100 (level - 1) + XP within the level = XP; 23 completed tasks give XP
\* 230, level 3 and 30 XP within the level.
C20_XpAndLevel ==
    xpOut # NoXpOut =>
        LET n == CompletedStored
        IN /\ xpOut.xp = 10 * n
           /\ xpOut.level = ((10 * n) \div 100) + 1
           /\ xpOut.xpInLevel = (10 * n) % 100
           /\ 0 <= xpOut.xpInLevel /\ xpOut.xpInLevel < 100
           /\ 100 * (xpOut.level - 1) + xpOut.xpInLevel = xpOut.xp
           /\ n = 23 => xpOut.xp = 230 /\ xpOut.level = 3 /\ xpOut.xpInLevel = 30

\* updateGamification has run over 23 completed tasks and some uncompleted.
C20_TwentyThreeCompleted ==
    /\ xpOut # NoXpOut
    /\ CompletedStored = 23
    /\ Len(xpTasks) > 23

XpIdle ==
    /\ xpTasks = << >>
    /\ xpOut = [xp |-> None, level |-> None, xpInLevel |-> None]

(***************************************************************************)
(* Storage failures: a localStorage whose setItem throws (quota exceeded)  *)
(* or whose stored text does not parse, under the tasks slice              *)
(* (unnamed/part_001), TaskService.getTasks (unnamed/part_003) and the     *)
(* legacy DataManager.get / set with TaskManager (js/utils/script.js).     *)
(***************************************************************************)

MaxFailTasks == 2      \* bound: tasks created in a run

\* A stored item: absent, the JSON text of a list, or text that does not parse.
Absent == [kind |-> "absent", items |-> << >>]
Json(items) == [kind |-> "json", items |-> items]
Unparsable == [kind |-> "unparsable", items |-> << >>]

FailInit ==
    /\ quotaFull = FALSE
    /\ stTasks = Absent
    /\ flTasks = << >>
    /\ flError = FALSE
    /\ dmItem = Absent
    /\ dmTasks = << >>
    /\ flNextId = 1
    /\ raised = FALSE

\* The storage fills up, or is freed again.
quotaChange ==
    /\ quotaFull' = ~quotaFull
    /\ UNCHANGED <<stTasks, flTasks, flError, dmItem, dmTasks, flNextId, raised>>
    /\ UNCHANGED failOthers

\* Something outside the program leaves text that is not JSON under a key.
damageItem(legacyKey) ==
    /\ IF legacyKey THEN dmItem' = Unparsable /\ UNCHANGED stTasks
       ELSE stTasks' = Unparsable /\ UNCHANGED dmItem
    /\ UNCHANGED <<quotaFull, flTasks, flError, dmTasks, flNextId, raised>>
    /\ UNCHANGED failOthers

\* reducers.addTask: the push, then localStorage.setItem outside any try; a
\* reducer that throws leaves the state as it was and dispatch throws.
flAddTask ==
    /\ flNextId <= MaxFailTasks
    /\ flNextId' = flNextId + 1
    /\ IF quotaFull
       THEN /\ raised' = TRUE
            /\ UNCHANGED <<flTasks, stTasks>>
       ELSE /\ raised' = FALSE
            /\ flTasks' = Append(flTasks, [id |-> flNextId])
            /\ stTasks' = Json(flTasks')
    /\ UNCHANGED <<quotaFull, flError, dmItem, dmTasks>>
    /\ UNCHANGED failOthers

\* fetchTasks with nobody signed in: TaskService.getTasks reads localStorage
\* and JSON.parse throws on text that does not parse; the thunk catches it and
\* rejects, and fetchTasks.rejected stores the message.  Fulfilled, the
\* reducer sets the state and calls setItem outside any try.
flFetchTasks ==
    /\ IF stTasks = Unparsable
       THEN /\ flError' = TRUE
            /\ raised' = FALSE
            /\ UNCHANGED <<flTasks, stTasks>>
       ELSE IF quotaFull
       THEN /\ raised' = TRUE
            /\ UNCHANGED <<flTasks, stTasks, flError>>
       ELSE /\ flError' = FALSE
            /\ raised' = FALSE
            /\ flTasks' = stTasks.items
            /\ stTasks' = Json(stTasks.items)
    /\ UNCHANGED <<quotaFull, dmItem, dmTasks, flNextId>>
    /\ UNCHANGED failOthers

\* DataManager.get(key, defaultValue): the default for an absent item and for
\* text that does not parse
dmGet(item, defaultValue) ==
    IF item.kind = "json" THEN item.items ELSE defaultValue

\* DataManager.set(key, value): the stored item afterwards; a setItem that
\* throws is caught and the item stays
dmSet(item, value) == IF quotaFull THEN item ELSE Json(value)

\* TaskManager.init(): this.tasks = DataManager.get(TASKS, [])
dmInitTasks ==
    /\ dmTasks' = dmGet(dmItem, << >>)
    /\ raised' = FALSE
    /\ UNCHANGED <<quotaFull, stTasks, flTasks, flError, dmItem, flNextId>>
    /\ UNCHANGED failOthers

\* TaskManager.addTask(): the push, then save() through DataManager.set
dmAddTask ==
    /\ flNextId <= MaxFailTasks
    /\ flNextId' = flNextId + 1
    /\ dmTasks' = Append(dmTasks, [id |-> flNextId])
    /\ dmItem' = dmSet(dmItem, dmTasks')
    /\ raised' = FALSE
    /\ UNCHANGED <<quotaFull, stTasks, flTasks, flError>>
    /\ UNCHANGED failOthers

NextFail ==
    \/ quotaChange
    \/ \E legacyKey \in BOOLEAN : damageItem(legacyKey)
    \/ flAddTask
    \/ flFetchTasks
    \/ dmInitTasks
    \/ dmAddTask

\* C21: when the storage backend fails to read or write, no operation raises
\* an exception; the operation continues on the data held in memory.
C21_NoExceptionOnStorageFailure == raised = FALSE

FailIdle ==
    /\ quotaFull = FALSE
    /\ stTasks = [kind |-> "absent", items |-> << >>]
    /\ flTasks = << >>
    /\ flError = FALSE
    /\ dmItem = [kind |-> "absent", items |-> << >>]
    /\ dmTasks = << >>
    /\ flNextId = 1
    /\ raised = FALSE

(***************************************************************************)
(* Stored records that lack a field: a completed task without completedAt  *)
(* and a transaction without date, under updateStreak (js/app.js),         *)
(* ChartManager.getProductivityData, TransactionManager.getMonthlyTrend    *)
(* and TransactionService.getAnalytics.                                    *)
(*                                                                         *)
(* A task's completedAt is given here by its UTC day; today is ChartToday.  *)
(***************************************************************************)

MaxMfTasks == 2        \* bound: stored tasks
MaxMfTx == 2           \* bound: stored transactions

MfTaskShapes ==
    [completed : BOOLEAN, completedAt : {None, ChartToday - 1, ChartToday}]

\* The date of a record that has none.
NoDate == [year |-> None, month |-> None, day |-> None]

MfTxShapes ==
    { Tx(category, 1, date) :
        category \in {"income", "food"},
        date \in {NoDate, TxDate(1, 3), TxDate(2, 10)} }

NoMfOut == [op |-> "", threw |-> FALSE, value |-> << >>]

MfInit ==
    /\ mfTasks \in UNION { [1..n -> MfTaskShapes] : n \in 0..MaxMfTasks }
    /\ mfTx \in UNION { [1..n -> MfTxShapes] : n \in 0..MaxMfTx }
    /\ mfOut = NoMfOut

\* The tasks with completedAt as the instant of 00:00 UTC of its day.
AtInstants(tasks) ==
    [k \in 1..Len(tasks) |->
        [tasks[k] EXCEPT !.completedAt =
            IF @ = None THEN None ELSE @ * TicksPerDay]]

\* updateStreak() of js/app.js, run at 00:00 UTC of today in the UTC zone
mfUpdateStreak ==
    /\ mfOut' = [op |-> "updateStreak", threw |-> FALSE,
                 value |-> <<ComputeStreak(AtInstants(mfTasks),
                                           ChartToday * TicksPerDay, 0)>>]
    /\ UNCHANGED <<mfTasks, mfTx>>
    /\ UNCHANGED mfOthers

\* ChartManager.getProductivityData()
mfGetProductivityData ==
    /\ mfOut' = [op |-> "getProductivityData", threw |-> FALSE,
                 value |-> [j \in 1..SeriesDays |->
                              CompletedOn(mfTasks, SeriesDate(SeriesDays - j))]]
    /\ UNCHANGED <<mfTasks, mfTx>>
    /\ UNCHANGED mfOthers

\* t.date.substring(0, 7) on a record whose date is undefined throws a
\* TypeError inside the forEach.
SubstringThrows(txs) == \E i \in 1..Len(txs) : txs[i].date = NoDate

\* TransactionManager.getMonthlyTrend()
mfGetMonthlyTrend ==
    /\ mfOut' = IF SubstringThrows(mfTx)
                THEN [op |-> "getMonthlyTrend", threw |-> TRUE, value |-> << >>]
                ELSE [op |-> "getMonthlyTrend", threw |-> FALSE,
                      value |-> LegacyTrendOf(mfTx)]
    /\ UNCHANGED <<mfTasks, mfTx>>
    /\ UNCHANGED mfOthers

\* TransactionService.getAnalytics(), reading the local list
mfGetAnalytics ==
    /\ mfOut' = IF SubstringThrows(mfTx)
                THEN [op |-> "getAnalytics", threw |-> TRUE, value |-> << >>]
                ELSE [op |-> "getAnalytics", threw |-> FALSE,
                      value |-> ServiceTrendOf(mfTx)]
    /\ UNCHANGED <<mfTasks, mfTx>>
    /\ UNCHANGED mfOthers

NextMf ==
    \/ mfUpdateStreak
    \/ mfGetProductivityData
    \/ mfGetMonthlyTrend
    \/ mfGetAnalytics

\* The stored records that have their required fields.
WholeTasks ==
    SelectSeq(mfTasks, LAMBDA t : t.completed => t.completedAt # None)
WholeTx == SelectSeq(mfTx, LAMBDA t : t.date # NoDate)

\* C22: a stored record that lacks a required field is left out of the
\* streak, the series and the monthly aggregates, and the aggregation
\* completes over the remaining records without raising an error.
C22_IncompleteRecordsLeftOut ==
    /\ ~mfOut.threw
    /\ mfOut.op = "updateStreak" =>
          mfOut.value = <<ComputeStreak(AtInstants(WholeTasks),
                                        ChartToday * TicksPerDay, 0)>>
    /\ mfOut.op = "getProductivityData" =>
          mfOut.value = [j \in 1..SeriesDays |->
                           CompletedOn(WholeTasks, SeriesDate(SeriesDays - j))]
    /\ mfOut.op = "getMonthlyTrend" => mfOut.value = LegacyTrendOf(WholeTx)
    /\ mfOut.op = "getAnalytics" => mfOut.value = ServiceTrendOf(WholeTx)

MfIdle ==
    /\ mfTasks = << >>
    /\ mfTx = << >>
    /\ mfOut = [op |-> "", threw |-> FALSE, value |-> << >>]

(***************************************************************************)
(* Entering transactions: TransactionManager.addTransaction                *)
(* (js/transactionManager.js), the addTransaction reducer                  *)
(* (store/slices/transactionsSlice.ts) and                                 *)
(* TransactionService.createTransaction (unnamed/part_004).                *)
(*                                                                         *)
(* A transaction is modelled by its amount.                                *)
(***************************************************************************)

MaxAmTx == 2           \* bound: transactions in one collection
MaxAmount == 2         \* bound: the largest amount entered

\* What the amount field of the form holds: nothing, text that is no number,
\* or the text of a number.
AmountTexts ==
    { [kind |-> "empty", value |-> 0], [kind |-> "text", value |-> 0] }
        \cup { [kind |-> "number", value |-> v] : v \in (-1)..MaxAmount }

\* The amounts a caller of the reducer or of the service passes.
AmountNumbers == (-1)..MaxAmount

AmInit ==
    /\ amLegacy = << >>
    /\ amStored = << >>
    /\ amSlice = << >>
    /\ amRet = "none"

\* parseFloat(amount)
parseFloat(text) ==
    IF text.kind = "number" THEN [nan |-> FALSE, value |-> text.value]
    ELSE [nan |-> TRUE, value |-> 0]

\* if (!description || !amount || !category), then
\* if (isNaN(numAmount) || numAmount <= 0)
Accepts(filled, text) ==
    /\ filled
    /\ text.kind # "empty"
    /\ ~parseFloat(text).nan
    /\ parseFloat(text).value > 0

\* TransactionManager.addTransaction(description, amount, category)
amAddTransaction(filled, text) ==
    /\ Len(amLegacy) < MaxAmTx
    /\ IF Accepts(filled, text)
       THEN /\ amLegacy' = Append(amLegacy, [amount |-> parseFloat(text).value])
            /\ amStored' = amLegacy'
            /\ amRet' = "added"
       ELSE /\ UNCHANGED <<amLegacy, amStored>>
            /\ amRet' = "rejected"
    /\ UNCHANGED amSlice
    /\ UNCHANGED amOthers

\* reducers.addTransaction
sliceAddTransaction(amount) ==
    /\ Len(amSlice) < MaxAmTx
    /\ amSlice' = Append(amSlice, [amount |-> amount])
    /\ amRet' = "added"
    /\ UNCHANGED <<amLegacy, amStored>>
    /\ UNCHANGED amOthers

\* createTransaction thunk: TransactionService.createTransaction, then
\* createTransaction.fulfilled
createTransaction(amount) ==
    /\ Len(amSlice) < MaxAmTx
    /\ amSlice' = Append(amSlice, [amount |-> amount])
    /\ amRet' = "created"
    /\ UNCHANGED <<amLegacy, amStored>>
    /\ UNCHANGED amOthers

\* reducers.removeTransaction, by position
removeTransaction(i) ==
    /\ i <= Len(amSlice)
    /\ amSlice' = [k \in 1..(Len(amSlice) - 1) |->
                     IF k < i THEN amSlice[k] ELSE amSlice[k + 1]]
    /\ amRet' = "removed"
    /\ UNCHANGED <<amLegacy, amStored>>
    /\ UNCHANGED amOthers

NextAm ==
    \/ \E filled \in BOOLEAN : \E text \in AmountTexts :
          amAddTransaction(filled, text)
    \/ \E amount \in AmountNumbers : sliceAddTransaction(amount)
    \/ \E amount \in AmountNumbers : createTransaction(amount)
    \/ \E i \in 1..MaxAmTx : removeTransaction(i)

AmountsPositive(txs) == \A i \in 1..Len(txs) : txs[i].amount > 0

\* C24: every stored transaction has an amount greater than zero, whichever
\* path created it.
C24_StoredAmountsPositive ==
    /\ AmountsPositive(amLegacy)
    /\ AmountsPositive(amStored)
    /\ AmountsPositive(amSlice)

AmIdle ==
    /\ amLegacy = << >>
    /\ amStored = << >>
    /\ amSlice = << >>
    /\ amRet = "none"

(***************************************************************************)
(* Auth slice (unnamed/part_000) and AuthService (services/authService.ts):*)
(* the login, register, logout, refreshToken and updateUserProfile thunks, *)
(* each from its dispatch to the settling of its request.                  *)
(*                                                                         *)
(* A user is its id; a token pair is the number of its issue.              *)
(***************************************************************************)

MaxTokens == 2         \* bound: token pairs issued in a run

AuthUsers == {1}

AuInit ==
    /\ auUser = None
    /\ isAuthenticated = FALSE
    /\ auTokens = None
    /\ auLsUser = None
    /\ auLsTokens = None
    /\ auFlights = {}
    /\ issued = 0
    /\ loggedOut = FALSE

\* login / register thunk dispatched (login.pending, register.pending)
auSignInStart(thunk) ==
    /\ thunk \notin auFlights
    /\ auFlights' = auFlights \cup {thunk}
    /\ UNCHANGED <<auUser, isAuthenticated, auTokens, auLsUser, auLsTokens,
                   issued, loggedOut>>
    /\ UNCHANGED auOthers

\* login.fulfilled / register.fulfilled, or the rejection of the thunk
auSignInSettle(thunk, user, ok) ==
    /\ thunk \in auFlights
    /\ auFlights' = auFlights \ {thunk}
    /\ IF ok
       THEN /\ issued < MaxTokens
            /\ issued' = issued + 1
            /\ auUser' = user
            /\ isAuthenticated' = TRUE
            /\ auTokens' = issued + 1
            /\ auLsUser' = user
            /\ auLsTokens' = issued + 1
            /\ loggedOut' = FALSE
       ELSE UNCHANGED <<auUser, isAuthenticated, auTokens, auLsUser,
                        auLsTokens, issued, loggedOut>>
    /\ UNCHANGED auOthers

\* logout thunk dispatched: authService.logout awaits firebaseAuth.signOut
auLogoutStart ==
    /\ "logout" \notin auFlights
    /\ auFlights' = auFlights \cup {"logout"}
    /\ UNCHANGED <<auUser, isAuthenticated, auTokens, auLsUser, auLsTokens,
                   issued, loggedOut>>
    /\ UNCHANGED auOthers

\* signOut has settled (a failure is caught): AuthService.logout removes
\* 'user' and 'tokens', and logout.fulfilled clears the state
auLogoutSettle ==
    /\ "logout" \in auFlights
    /\ auFlights' = auFlights \ {"logout"}
    /\ auUser' = None
    /\ isAuthenticated' = FALSE
    /\ auTokens' = None
    /\ auLsUser' = None
    /\ auLsTokens' = None
    /\ loggedOut' = TRUE
    /\ UNCHANGED issued
    /\ UNCHANGED auOthers

\* refreshToken thunk dispatched with the refresh token the state holds
auRefreshStart ==
    /\ auTokens # None
    /\ "refresh" \notin auFlights
    /\ auFlights' = auFlights \cup {"refresh"}
    /\ UNCHANGED <<auUser, isAuthenticated, auTokens, auLsUser, auLsTokens,
                   issued, loggedOut>>
    /\ UNCHANGED auOthers

\* refreshToken.fulfilled, or the rejection of the thunk
auRefreshSettle(ok) ==
    /\ "refresh" \in auFlights
    /\ auFlights' = auFlights \ {"refresh"}
    /\ IF ok
       THEN /\ issued < MaxTokens
            /\ issued' = issued + 1
            /\ auTokens' = issued + 1
            /\ auLsTokens' = issued + 1
       ELSE UNCHANGED <<auTokens, auLsTokens, issued>>
    /\ UNCHANGED <<auUser, isAuthenticated, auLsUser, loggedOut>>
    /\ UNCHANGED auOthers

\* updateUserProfile thunk dispatched by the signed-in user
auProfileStart ==
    /\ auUser # None
    /\ "profile" \notin auFlights
    /\ auFlights' = auFlights \cup {"profile"}
    /\ UNCHANGED <<auUser, isAuthenticated, auTokens, auLsUser, auLsTokens,
                   issued, loggedOut>>
    /\ UNCHANGED auOthers

\* updateUserProfile.fulfilled with the user the server returns, or the
\* rejection of the thunk
auProfileSettle(user, ok) ==
    /\ "profile" \in auFlights
    /\ auFlights' = auFlights \ {"profile"}
    /\ IF ok
       THEN /\ auUser' = user
            /\ auLsUser' = user
       ELSE UNCHANGED <<auUser, auLsUser>>
    /\ UNCHANGED <<isAuthenticated, auTokens, auLsTokens, issued, loggedOut>>
    /\ UNCHANGED auOthers

\* reducers.initializeAuth
initializeAuth ==
    /\ IF auLsUser # None /\ auLsTokens # None
       THEN /\ auUser' = auLsUser
            /\ isAuthenticated' = TRUE
            /\ auTokens' = auLsTokens
       ELSE UNCHANGED <<auUser, isAuthenticated, auTokens>>
    /\ UNCHANGED <<auLsUser, auLsTokens, auFlights, issued, loggedOut>>
    /\ UNCHANGED auOthers

NextAu ==
    \/ \E thunk \in {"login", "register"} : auSignInStart(thunk)
    \/ \E thunk \in {"login", "register"} : \E user \in AuthUsers :
          \E ok \in BOOLEAN : auSignInSettle(thunk, user, ok)
    \/ auLogoutStart
    \/ auLogoutSettle
    \/ auRefreshStart
    \/ \E ok \in BOOLEAN : auRefreshSettle(ok)
    \/ auProfileStart
    \/ \E user \in AuthUsers : \E ok \in BOOLEAN : auProfileSettle(user, ok)
    \/ initializeAuth

\* C27: from the fulfilment of a logout until the next login or register
\* fulfils, the auth state holds no user and no tokens, isAuthenticated is
\* false and local storage holds neither 'user' nor 'tokens'.
C27_LoggedOutStaysCleared ==
    loggedOut =>
        /\ auUser = None
        /\ auTokens = None
        /\ ~isAuthenticated
        /\ auLsUser = None
        /\ auLsTokens = None

AuIdle ==
    /\ auUser = None
    /\ isAuthenticated = FALSE
    /\ auTokens = None
    /\ auLsUser = None
    /\ auLsTokens = None
    /\ auFlights = {}
    /\ issued = 0
    /\ loggedOut = FALSE

(***************************************************************************)
(* Login attempts: SecurityUtils.rateLimiter (js/utils/script.js), the     *)
(* form handler AuthManager.handleLogin (js/auth.js, js/utils/script.js)   *)
(* and the global handleLogin of the page script (unnamed/part_008).       *)
(*                                                                         *)
(* An email is a number; times are milliseconds.  checked is the history   *)
(* of the attempts that reached the credential check, per email.           *)
(***************************************************************************)

MaxRlClock == 60000    \* bound: the clock stops here
MaxChecked == 6        \* bound: credential checks recorded in a run

maxAttempts == 5
windowMs == 60000
ClockStep == 30000

Emails == {1, 2}
Registered == {1}

\* the credential checks recorded so far
Checks == Len(checked[1]) + Len(checked[2])

RlInit ==
    /\ rlNow = 0
    /\ attempts = [e \in Emails |-> <<>>]
    /\ checked = [e \in Emails |-> <<>>]
    /\ rlCurrentUser = None
    /\ rlStoredUser = None
    /\ hasLogin \in BOOLEAN

\* Date.now() moves on
rlTick ==
    /\ rlNow + ClockStep <= MaxRlClock
    /\ rlNow' = rlNow + ClockStep
    /\ UNCHANGED <<attempts, checked, rlCurrentUser, rlStoredUser, hasLogin>>
    /\ UNCHANGED rlOthers

\* attempts.filter(time => now - time < this.windowMs)
recentAttempts(key) == SelectSeq(attempts[key], LAMBDA time : rlNow - time < windowMs)

isAllowed(key) == Len(recentAttempts(key)) < maxAttempts

\* AuthManager.handleLogin: the submit handler of the login form; good says
\* whether the password typed is the one of the account
amHandleLogin(email, good) ==
    /\ Checks < MaxChecked
    /\ IF ~isAllowed(email)
       THEN UNCHANGED <<attempts, checked, rlCurrentUser, rlStoredUser>>
       ELSE /\ attempts' = [attempts EXCEPT ![email] = Append(recentAttempts(email), rlNow)]
            /\ checked' = [checked EXCEPT ![email] = Append(@, rlNow)]
            /\ IF email \in Registered /\ good
               THEN /\ rlCurrentUser' = email
                    /\ rlStoredUser' = email
               ELSE UNCHANGED <<rlCurrentUser, rlStoredUser>>
    /\ UNCHANGED <<rlNow, hasLogin>>
    /\ UNCHANGED rlOthers

\* handleLogin of the page script: AuthManager.login where it exists (its
\* result is dropped), else the 'lifeos_user' fallback
handleLogin(email, good) ==
    /\ Checks < MaxChecked
    /\ IF hasLogin
       THEN /\ checked' = [checked EXCEPT ![email] = Append(@, rlNow)]
            /\ UNCHANGED <<rlCurrentUser, rlStoredUser>>
       ELSE /\ rlStoredUser' = email
            /\ rlCurrentUser' = email
            /\ UNCHANGED checked
    /\ UNCHANGED <<rlNow, attempts, hasLogin>>
    /\ UNCHANGED rlOthers

NextRl ==
    \/ rlTick
    \/ \E email \in Emails : \E good \in BOOLEAN : amHandleLogin(email, good)
    \/ \E email \in Emails : \E good \in BOOLEAN : handleLogin(email, good)

\* the credential checks of an email in the window that starts at its i-th
InWindow(email, i) ==
    {j \in 1..Len(checked[email]) :
        /\ checked[email][j] >= checked[email][i]
        /\ checked[email][j] - checked[email][i] < windowMs}

\* C28: for each email, at most 5 login attempts within any 60-second
\* window reach the credential check.
C28_FiveChecksPerWindow ==
    \A email \in Emails : \A i \in 1..Len(checked[email]) :
        Cardinality(InWindow(email, i)) <= maxAttempts

RlIdle ==
    /\ rlNow = 0
    /\ attempts = [e \in Emails |-> <<>>]
    /\ checked = [e \in Emails |-> <<>>]
    /\ rlCurrentUser = None
    /\ rlStoredUser = None
    /\ hasLogin = FALSE

(***************************************************************************)
(* Sessions: AuthManager.init, saveSession, loadSession and logout         *)
(* (js/utils/script.js, js/auth.js).  Times are days.                      *)
(***************************************************************************)

MaxSsDay == 9          \* bound: the clock stops here

sessionDays == 7
rememberDays == 30

NoSession == [user |-> None, expiresAt |-> None]

SsInit ==
    /\ ssNow = 0
    /\ ssCurrentUser = None
    /\ ssSession = NoSession

\* Date.now() moves on by a day
ssTick ==
    /\ ssNow < MaxSsDay
    /\ ssNow' = ssNow + 1
    /\ UNCHANGED <<ssCurrentUser, ssSession>>
    /\ UNCHANGED ssOthers

\* AuthManager.saveSession(user, token, remember)
saveSession(user, remember) ==
    [user |-> user,
     expiresAt |-> ssNow + (IF remember THEN rememberDays ELSE sessionDays)]

\* AuthManager.handleLogin with the credentials of a registered user
ssHandleLogin(user, remember) ==
    /\ ssCurrentUser' = user
    /\ ssSession' = saveSession(user, remember)
    /\ UNCHANGED ssNow
    /\ UNCHANGED ssOthers

\* AuthManager.logout
ssLogout ==
    /\ ssCurrentUser # None
    /\ ssCurrentUser' = None
    /\ ssSession' = NoSession
    /\ UNCHANGED ssNow
    /\ UNCHANGED ssOthers

\* the page is loaded: AuthManager.init calls loadSession on the fresh
\* object, whose currentUser is null
ssAuthInit ==
    /\ IF ssSession # NoSession
       THEN IF ssNow > ssSession.expiresAt
            THEN /\ ssCurrentUser' = None
                 /\ ssSession' = NoSession
            ELSE /\ ssCurrentUser' = ssSession.user
                 /\ UNCHANGED ssSession
       ELSE /\ ssCurrentUser' = None
            /\ UNCHANGED ssSession
    /\ UNCHANGED ssNow
    /\ UNCHANGED ssOthers

NextSs ==
    \/ ssTick
    \/ \E user \in Users : \E remember \in BOOLEAN : ssHandleLogin(user, remember)
    \/ ssLogout
    \/ ssAuthInit

\* C29: whenever currentUser is non-null, the current time is not later
\* than the expiresAt of the session that was saved at login.
C29_SignedInWithinExpiry ==
    ssCurrentUser # None =>
        /\ ssSession # NoSession
        /\ ssNow <= ssSession.expiresAt

SsIdle ==
    /\ ssNow = 0
    /\ ssCurrentUser = None
    /\ ssSession = NoSession

(***************************************************************************)
(* Users of one device: AuthManager.logout (js/auth.js), TaskManager.init  *)
(* and addTask (js/utils/script.js), TaskService.getTasks and createTask   *)
(* (unnamed/part_003).  A task is the user who created it.                 *)
(***************************************************************************)

MaxOwTasks == 2        \* bound: tasks per store

Accounts == {1, 2}

NothingShown == [reader |-> None, tasks |-> <<>>]

OwInit ==
    /\ owUser = None
    /\ owLegacy = <<>>
    /\ owRemote = <<>>
    /\ owLocal = <<>>
    /\ owShown = NothingShown

\* a login succeeds
owLogin(user) ==
    /\ owUser = None
    /\ owUser' = user
    /\ UNCHANGED <<owLegacy, owRemote, owLocal, owShown>>
    /\ UNCHANGED owOthers

\* AuthManager.logout: the session goes, the stored tasks stay
owLogout ==
    /\ owUser # None
    /\ owUser' = None
    /\ UNCHANGED <<owLegacy, owRemote, owLocal, owShown>>
    /\ UNCHANGED owOthers

\* TaskManager.addTask by the signed-in user
owAddTask ==
    /\ owUser # None
    /\ Len(owLegacy) < MaxOwTasks
    /\ owLegacy' = Append(owLegacy, owUser)
    /\ UNCHANGED <<owUser, owRemote, owLocal, owShown>>
    /\ UNCHANGED owOthers

\* TaskManager.init for the signed-in user: the list it loads and renders
owTaskInit ==
    /\ owUser # None
    /\ owShown' = [reader |-> owUser, tasks |-> owLegacy]
    /\ UNCHANGED <<owUser, owLegacy, owRemote, owLocal>>
    /\ UNCHANGED owOthers

\* TaskService.createTask by the signed-in user; reachable says whether
\* setDocument succeeds
owCreateTask(reachable) ==
    /\ owUser # None
    /\ IF reachable
       THEN /\ Len(owRemote) < MaxOwTasks
            /\ owRemote' = Append(owRemote, owUser)
            /\ UNCHANGED owLocal
       ELSE /\ Len(owLocal) < MaxOwTasks
            /\ owLocal' = Append(owLocal, owUser)
            /\ UNCHANGED owRemote
    /\ UNCHANGED <<owUser, owLegacy, owShown>>
    /\ UNCHANGED owOthers

\* TaskService.getTasks by the signed-in user; reachable says whether
\* getCollection succeeds
owGetTasks(reachable) ==
    /\ owUser # None
    /\ owShown' = [reader |-> owUser,
                   tasks |-> IF reachable
                             THEN SelectSeq(owRemote, LAMBDA userId : userId = owUser)
                             ELSE owLocal]
    /\ UNCHANGED <<owUser, owLegacy, owRemote, owLocal>>
    /\ UNCHANGED owOthers

NextOw ==
    \/ \E user \in Accounts : owLogin(user)
    \/ owLogout
    \/ owAddTask
    \/ owTaskInit
    \/ \E reachable \in BOOLEAN : owCreateTask(reachable)
    \/ \E reachable \in BOOLEAN : owGetTasks(reachable)

\* C30: a task created while user A is signed in is never returned to a
\* different user B who signs in afterwards on the same device.
C30_OnlyOwnTasksReturned ==
    \A i \in 1..Len(owShown.tasks) : owShown.tasks[i] = owShown.reader

OwIdle ==
    /\ owUser = None
    /\ owLegacy = <<>>
    /\ owRemote = <<>>
    /\ owLocal = <<>>
    /\ owShown = NothingShown

AchStoreIdle == lsAchievements = [kind |-> "missing", items |-> << >>]

ProdIdle ==
    /\ stats = calculateInitialStats(0, 0)
    /\ achievements = initialAchievements
    /\ clock = 0

StreakIdle ==
    /\ lsTasks = << >>
    /\ now = 0
    /\ tz = 0
    /\ streakCount = None

InitProd ==
    /\ ProdInit
    /\ StreakIdle /\ SvcIdle /\ DataIdle /\ MoodIdle /\ TmIdle
    /\ AnIdle /\ ChartIdle /\ TxIdle /\ XpIdle /\ FailIdle
    /\ MfIdle /\ AmIdle /\ AuIdle /\ RlIdle /\ SsIdle
    /\ OwIdle /\ AchStoreInit

SpecProd == InitProd /\ [][NextProd]_vars

InitStreak ==
    /\ StreakInit
    /\ ProdIdle /\ SvcIdle /\ DataIdle /\ MoodIdle /\ TmIdle
    /\ AnIdle /\ ChartIdle /\ TxIdle /\ XpIdle /\ FailIdle
    /\ MfIdle /\ AmIdle /\ AuIdle /\ RlIdle /\ SsIdle
    /\ OwIdle /\ AchStoreIdle

NextStreak == updateStreakLegacy

SpecStreak == InitStreak /\ [][NextStreak]_vars

InitSvc ==
    /\ SvcInit
    /\ ProdIdle /\ StreakIdle /\ DataIdle /\ MoodIdle /\ TmIdle
    /\ AnIdle /\ ChartIdle /\ TxIdle /\ XpIdle /\ FailIdle
    /\ MfIdle /\ AmIdle /\ AuIdle /\ RlIdle /\ SsIdle
    /\ OwIdle /\ AchStoreIdle

SpecSvc == InitSvc /\ [][NextSvc]_vars

InitData ==
    /\ DataInit
    /\ ProdIdle /\ StreakIdle /\ SvcIdle /\ MoodIdle /\ TmIdle
    /\ AnIdle /\ ChartIdle /\ TxIdle /\ XpIdle /\ FailIdle
    /\ MfIdle /\ AmIdle /\ AuIdle /\ RlIdle /\ SsIdle
    /\ OwIdle /\ AchStoreIdle

SpecData == InitData /\ [][NextData]_vars

InitMood ==
    /\ MoodInit
    /\ ProdIdle /\ StreakIdle /\ SvcIdle /\ DataIdle /\ TmIdle
    /\ AnIdle /\ ChartIdle /\ TxIdle /\ XpIdle /\ FailIdle
    /\ MfIdle /\ AmIdle /\ AuIdle /\ RlIdle /\ SsIdle
    /\ OwIdle /\ AchStoreIdle

SpecMood == InitMood /\ [][NextMood]_vars

InitTm ==
    /\ TmInit
    /\ ProdIdle /\ StreakIdle /\ SvcIdle /\ DataIdle /\ MoodIdle
    /\ AnIdle /\ ChartIdle /\ TxIdle /\ XpIdle /\ FailIdle
    /\ MfIdle /\ AmIdle /\ AuIdle /\ RlIdle /\ SsIdle
    /\ OwIdle /\ AchStoreIdle

SpecTm == InitTm /\ [][NextTm]_vars

InitAn ==
    /\ AnInit
    /\ ProdIdle /\ StreakIdle /\ SvcIdle /\ DataIdle /\ MoodIdle
    /\ TmIdle /\ ChartIdle /\ TxIdle /\ XpIdle /\ FailIdle
    /\ MfIdle /\ AmIdle /\ AuIdle /\ RlIdle /\ SsIdle
    /\ OwIdle /\ AchStoreIdle

SpecAn == InitAn /\ [][NextAn]_vars

InitChart ==
    /\ ChartInit
    /\ ProdIdle /\ StreakIdle /\ SvcIdle /\ DataIdle /\ MoodIdle
    /\ TmIdle /\ AnIdle /\ TxIdle /\ XpIdle /\ FailIdle
    /\ MfIdle /\ AmIdle /\ AuIdle /\ RlIdle /\ SsIdle
    /\ OwIdle /\ AchStoreIdle

SpecChart == InitChart /\ [][NextChart]_vars

InitTx ==
    /\ TxInit
    /\ ProdIdle /\ StreakIdle /\ SvcIdle /\ DataIdle /\ MoodIdle
    /\ TmIdle /\ AnIdle /\ ChartIdle /\ XpIdle /\ FailIdle
    /\ MfIdle /\ AmIdle /\ AuIdle /\ RlIdle /\ SsIdle
    /\ OwIdle /\ AchStoreIdle

SpecTx == InitTx /\ [][NextTx]_vars

InitXp ==
    /\ XpInit
    /\ ProdIdle /\ StreakIdle /\ SvcIdle /\ DataIdle /\ MoodIdle
    /\ TmIdle /\ AnIdle /\ ChartIdle /\ TxIdle /\ FailIdle
    /\ MfIdle /\ AmIdle /\ AuIdle /\ RlIdle /\ SsIdle
    /\ OwIdle /\ AchStoreIdle

SpecXp == InitXp /\ [][NextXp]_vars

InitFail ==
    /\ FailInit
    /\ ProdIdle /\ StreakIdle /\ SvcIdle /\ DataIdle /\ MoodIdle
    /\ TmIdle /\ AnIdle /\ ChartIdle /\ TxIdle /\ XpIdle
    /\ MfIdle /\ AmIdle /\ AuIdle /\ RlIdle /\ SsIdle
    /\ OwIdle /\ AchStoreIdle

SpecFail == InitFail /\ [][NextFail]_vars

InitMf ==
    /\ MfInit
    /\ ProdIdle /\ StreakIdle /\ SvcIdle /\ DataIdle /\ MoodIdle
    /\ TmIdle /\ AnIdle /\ ChartIdle /\ TxIdle /\ XpIdle
    /\ FailIdle /\ AmIdle /\ AuIdle /\ RlIdle /\ SsIdle
    /\ OwIdle /\ AchStoreIdle

SpecMf == InitMf /\ [][NextMf]_vars

InitAm ==
    /\ AmInit
    /\ ProdIdle /\ StreakIdle /\ SvcIdle /\ DataIdle /\ MoodIdle
    /\ TmIdle /\ AnIdle /\ ChartIdle /\ TxIdle /\ XpIdle
    /\ FailIdle /\ MfIdle /\ AuIdle /\ RlIdle /\ SsIdle
    /\ OwIdle /\ AchStoreIdle

SpecAm == InitAm /\ [][NextAm]_vars

InitAu ==
    /\ AuInit
    /\ ProdIdle /\ StreakIdle /\ SvcIdle /\ DataIdle /\ MoodIdle
    /\ TmIdle /\ AnIdle /\ ChartIdle /\ TxIdle /\ XpIdle
    /\ FailIdle /\ MfIdle /\ AmIdle /\ RlIdle /\ SsIdle
    /\ OwIdle /\ AchStoreIdle

SpecAu == InitAu /\ [][NextAu]_vars

InitRl ==
    /\ RlInit
    /\ ProdIdle /\ StreakIdle /\ SvcIdle /\ DataIdle /\ MoodIdle
    /\ TmIdle /\ AnIdle /\ ChartIdle /\ TxIdle /\ XpIdle
    /\ FailIdle /\ MfIdle /\ AmIdle /\ AuIdle /\ SsIdle
    /\ OwIdle /\ AchStoreIdle

SpecRl == InitRl /\ [][NextRl]_vars

InitSs ==
    /\ SsInit
    /\ ProdIdle /\ StreakIdle /\ SvcIdle /\ DataIdle /\ MoodIdle
    /\ TmIdle /\ AnIdle /\ ChartIdle /\ TxIdle /\ XpIdle
    /\ FailIdle /\ MfIdle /\ AmIdle /\ AuIdle /\ RlIdle
    /\ OwIdle /\ AchStoreIdle

SpecSs == InitSs /\ [][NextSs]_vars

InitOw ==
    /\ OwInit
    /\ ProdIdle /\ StreakIdle /\ SvcIdle /\ DataIdle /\ MoodIdle
    /\ TmIdle /\ AnIdle /\ ChartIdle /\ TxIdle /\ XpIdle
    /\ FailIdle /\ MfIdle /\ AmIdle /\ AuIdle /\ RlIdle
    /\ SsIdle /\ AchStoreIdle

SpecOw == InitOw /\ [][NextOw]_vars

====
